---- MODULE Spec2Model ----
(***************************************************************************)
(* TrackFlow: batch analysis (analyzer/batch_analyzer.py) and the          *)
(* single-track analysis pipeline (analyzer/audio_analyzer.py).            *)
(***************************************************************************)
EXTENDS Integers, Sequences, FiniteSets, TLC

\* ------------------------------------------------------------------------
\* Program constants
\* ------------------------------------------------------------------------
MAX_WORKERS == 3
ANALYSIS_DURATION == 60
SAMPLE_RATE == 22050
HOP_LENGTH == 512
N_FFT == 2048

\* ------------------------------------------------------------------------
\* Bounds of the model
\* ------------------------------------------------------------------------
MaxPaths == 4
MaxEnvLen == 18      \* longest onset envelope fed to the tempo estimator
MaxPeriod == 15      \* longest onset period (in frames) of a test envelope
MaxRms == 360        \* largest full-file RMS, in thousandths

Null == "null"

VARIABLES
    \* ---- batch analysis --------------------------------------------------
    files,          \* files[p]: what analysing path p does ("ok", "fail", "missing")
    cache,          \* cache[p]: the cache file of path p ("absent", "corrupt", "old", "new")
    bpc,            \* position of the batch thread inside BatchThread.run/analyze_all
    cancelled,      \* BatchAnalyzer._cancelled
    scanIdx,        \* loop index of the first pass (1-based)
    uncached,       \* the local list uncached
    completed,      \* the local counter completed
    cached_count,   \* the local counter cached_count
    workq,          \* the executor's work queue (submitted, not yet taken)
    futures,        \* futures[p]: "none", "pending", "skipped", "ok", "error"
    yielded,        \* futures already yielded by as_completed
    worker,         \* worker[w]: [st, p] for the pool threads
    signals,        \* the signals emitted so far, in order
    cancelCalled,   \* history: cancel() has been called
    begun,          \* history: paths for which analyze_track has been invoked
    scanHit,        \* history: paths whose cache entry was readable when scanned
    signalsAtSubmit,\* history: number of signals emitted when the first task was submitted
    \* ---- single-track analysis -------------------------------------------
    track,          \* the audio file handed to analyze_track
    apc,            \* "ready", "returned" or "raised"
    result,         \* the dict returned by analyze_track, or the exception raised
    \* ---- stage functions applied on their own ----------------------------
    fnIn,           \* the input of the function
    fnPc,           \* "ready" or "applied"
    fnOut,          \* its output
    \* ---- the result cache of one audio file ------------------------------
    fileStat,       \* the file's stat(): [mtime, size]
    cacheFiles,     \* CACHE_DIR: cache file name |-> text, for the files that exist
    cacheCall,      \* the last call of a cache function: [op, stat, ret]
    lastSave,       \* history: the last save_cached call: [stat, value, complete]
    written,        \* history: written[s], the value last saved while the stat was s
    nSaves,         \* history: number of save_cached calls
    nModified,      \* history: number of modifications of the file
    \* ---- loop controls of the player window ------------------------------
    current_track,  \* MainWindow.current_track: None or [bpm, duration]
    position,       \* audio_player.get_position(), normalised
    loop_a,         \* MainWindow._loop_a
    loop_b,         \* MainWindow._loop_b
    loop_active,    \* MainWindow._loop_active
    loopCall,       \* history: the last loop handler run, with its argument
    \* ---- the audio player ------------------------------------------------
    state,          \* AudioPlayer.state
    current_file,   \* AudioPlayer.current_file
    duration,       \* AudioPlayer.duration, whole seconds
    loop_sound,     \* AudioPlayer._loop_sound is not None
    timer_active,   \* AudioPlayer._timer is running
    music,          \* the pygame.mixer.music stream: "stopped", "playing", "paused"
    playerCall,     \* history: the last method of the player that ran
    \* ---- one cache file under concurrent callers -------------------------
    cacheFileLinked,\* CACHE_DIR has an entry for the file's key
    cacheFileText,  \* the text of the inode the entry points to
    saver,          \* the pool worker inside save_cached: [pc, value, attached, text]
    loader,         \* loader[t]: thread t inside load_cached / is_cached
    savedValue,     \* history: the value of the last save_cached call that returned
    nSharedSaves,   \* history: number of save_cached calls started
    \* ---- single-track analysis threads of the window ---------------------
    analysis_thread,\* MainWindow.analysis_thread: 0 (None) or the index of a thread
    threads,        \* the AnalysisThread objects created so far: [file_path, pc, connected]
    eventQueue,     \* the UI thread's queue of slot calls posted by emitted signals
    applied,        \* history: the thread whose result _on_analysis_done applied last
    threadCall,     \* history: the last step taken
    \* ---- the download queue of the downloads tab -------------------------
    queue,          \* DownloadsTab._queue: [url, source_label, status, file_path]
    rows,           \* the rows of _queue_table: [url, idx, status, button]
    dl_worker,      \* DownloadsTab._worker: 0 (None) or the index of a worker
    active_url,     \* DownloadsTab._active_url
    workers,        \* the DownloadWorker threads created so far: [url, pc]
    dlEvents,       \* done / error signals emitted and not yet delivered
    nQueued,        \* history: number of _add_to_queue calls
    tabCall,        \* history: the last handler of the tab that ran, and what Import Selected emitted
    \* ---- playlist synchronisation ----------------------------------------
    syncStateFile,  \* SYNC_STATE_FILE: source id |-> list of known track ids
    sync_worker,    \* DownloadsTab._sync_worker: 0 (None) or the index of a worker
    syncWorkers,    \* the PlaylistSyncWorker threads: [known, new_state, next, running]
    announced,      \* history: announced[<<source, id>>], number of new_track / track_not_found
    startupDone,    \* history: run_startup_sync has been called
    syncCall        \* history: the last step taken

batchVars == <<files, cache, bpc, cancelled, scanIdx, uncached, completed,
               cached_count, workq, futures, yielded, worker, signals,
               cancelCalled, begun, scanHit, signalsAtSubmit>>

analysisVars == <<track, apc, result>>
fnVars == <<fnIn, fnPc, fnOut>>

cacheVars == <<fileStat, cacheFiles, cacheCall, lastSave, written, nSaves,
               nModified>>
loopVars == <<current_track, position, loop_a, loop_b, loop_active, loopCall>>
\* the desktop application's other components: the audio player, the cache
\* under concurrent callers, the single-track analysis thread, the download
\* queue and the playlist synchroniser
playerVars == <<state, current_file, duration, loop_sound, timer_active, music,
                playerCall>>
sharedCacheVars == <<cacheFileLinked, cacheFileText, saver, loader, savedValue,
                     nSharedSaves>>
threadVars == <<analysis_thread, threads, eventQueue, applied, threadCall>>
queueVars == <<queue, rows, dl_worker, active_url, workers, dlEvents, nQueued,
               tabCall>>
syncVars == <<syncStateFile, sync_worker, syncWorkers, announced, startupDone,
              syncCall>>
uiVars == <<playerVars, sharedCacheVars, threadVars, queueVars, syncVars>>
vars == <<batchVars, analysisVars, fnVars, cacheVars, loopVars, uiVars>>

\* ------------------------------------------------------------------------
\* The library a batch runs over
\* ------------------------------------------------------------------------
PathKinds == {"cached", "corruptcache", "ok", "fail", "missing"}

FileOf(kind) ==
    CASE kind = "fail"    -> "fail"
      [] kind = "missing" -> "missing"
      [] OTHER            -> "ok"

CacheOf(kind) ==
    CASE kind = "cached"       -> "old"
      [] kind = "corruptcache" -> "corrupt"
      [] OTHER                 -> "absent"

Total == Len(files)
Paths == 1..Total

Sig(type, path, payload, n, m) ==
    [type |-> type, path |-> path, payload |-> payload, n |-> n, m |-> m]

\* load_cached: the stat() of _cache_key raises for a missing file; a
\* readable cache file is returned; a corrupt one is unlinked.
LoadCachedRaises(p) == files[p] = "missing"

\* mutant: the cache is never consulted
LoadCached_NeverHit(p) == Null

LoadCached(p) ==
    IF cache[p] \in {"old", "new"} THEN cache[p] ELSE Null

CacheAfterLoad(p) ==
    IF cache[p] = "corrupt" THEN [cache EXCEPT ![p] = "absent"] ELSE cache

\* analyzer_pool[idx % MAX_WORKERS], idx the 0-based index in file_paths
AnalyzerFor(p) == (p - 1) % MAX_WORKERS

\* ------------------------------------------------------------------------
\* Batch thread
\* ------------------------------------------------------------------------
BatchInit ==
    /\ \E n \in 0..MaxPaths : \E lib \in [1..n -> PathKinds] :
          /\ files = [p \in 1..n |-> FileOf(lib[p])]
          /\ cache = [p \in 1..n |-> CacheOf(lib[p])]
          /\ futures = [p \in 1..n |-> "none"]
    /\ bpc = "idle"
    /\ cancelled = FALSE
    /\ scanIdx = 1
    /\ uncached = <<>>
    /\ completed = 0
    /\ cached_count = 0
    /\ workq = <<>>
    /\ yielded = {}
    /\ worker = [w \in 1..MAX_WORKERS |-> [st |-> "idle", p |-> 0]]
    /\ signals = <<>>
    /\ cancelCalled = FALSE
    /\ begun = {}
    /\ scanHit = {}
    /\ signalsAtSubmit = -1

\* MainWindow._analyze_all: needs a non-empty library; BatchThread.start()
StartBatch ==
    /\ UNCHANGED <<analysisVars, fnVars, cacheVars, loopVars, uiVars>>
    /\ bpc = "idle"
    /\ Total > 0
    /\ bpc' = "starting"
    /\ UNCHANGED <<files, cache, cancelled, scanIdx, uncached, completed,
                   cached_count, workq, futures, yielded, worker, signals,
                   cancelCalled, begun, scanHit, signalsAtSubmit>>

\* analyze_all entry: self._cancelled = False and the locals
EnterAnalyzeAll ==
    /\ UNCHANGED <<analysisVars, fnVars, cacheVars, loopVars, uiVars>>
    /\ bpc = "starting"
    /\ cancelled' = FALSE
    /\ completed' = 0
    /\ cached_count' = 0
    /\ uncached' = <<>>
    /\ scanIdx' = 1
    /\ bpc' = "scan"
    /\ UNCHANGED <<files, cache, workq, futures, yielded, worker, signals,
                   cancelCalled, begun, scanHit, signalsAtSubmit>>

\* One iteration of the first pass
ScanStep ==
    /\ UNCHANGED <<analysisVars, fnVars, cacheVars, loopVars, uiVars>>
    /\ bpc = "scan"
    /\ scanIdx <= Total
    /\ LET p == scanIdx IN
       IF cancelled
       THEN /\ bpc' = "check"
            /\ UNCHANGED <<cache, scanIdx, uncached, completed, cached_count,
                           signals, scanHit>>
       ELSE IF LoadCachedRaises(p)
       THEN /\ bpc' = "crashed"
            /\ UNCHANGED <<cache, scanIdx, uncached, completed, cached_count,
                           signals, scanHit>>
       ELSE IF LoadCached(p) # Null
       THEN /\ cached_count' = cached_count + 1
            /\ completed' = completed + 1
            /\ signals' = signals \o
                  << Sig("track_done", p, LoadCached(p), completed + 1, Total),
                     Sig("progress", 0, Null, completed + 1, Total) >>
            /\ scanHit' = IF cache[p] \in {"old", "new"}
                          THEN scanHit \cup {p} ELSE scanHit
            /\ scanIdx' = scanIdx + 1
            /\ UNCHANGED <<cache, uncached, bpc>>
       ELSE /\ uncached' = Append(uncached, p)
            /\ cache' = CacheAfterLoad(p)
            /\ scanHit' = IF cache[p] \in {"old", "new"}
                          THEN scanHit \cup {p} ELSE scanHit
            /\ scanIdx' = scanIdx + 1
            /\ UNCHANGED <<completed, cached_count, signals, bpc>>
    /\ UNCHANGED <<files, cancelled, workq, futures, yielded, worker,
                   cancelCalled, begun, signalsAtSubmit>>

ScanEnd ==
    /\ UNCHANGED <<analysisVars, fnVars, cacheVars, loopVars, uiVars>>
    /\ bpc = "scan"
    /\ scanIdx > Total
    /\ bpc' = "check"
    /\ UNCHANGED <<files, cache, cancelled, scanIdx, uncached, completed,
                   cached_count, workq, futures, yielded, worker, signals,
                   cancelCalled, begun, scanHit, signalsAtSubmit>>

\* "if not uncached and not self._cancelled: all_done.emit(...); return"
CheckNothingToDo ==
    /\ UNCHANGED <<analysisVars, fnVars, cacheVars, loopVars, uiVars>>
    /\ bpc = "check"
    /\ IF uncached = <<>> /\ ~cancelled
       THEN /\ signals' = Append(signals,
                   Sig("all_done", 0, Null, Total - cached_count, cached_count))
            /\ bpc' = "done"
       ELSE /\ bpc' = "submit"
            /\ UNCHANGED signals
    /\ UNCHANGED <<files, cache, cancelled, scanIdx, uncached, completed,
                   cached_count, workq, futures, yielded, worker,
                   cancelCalled, begun, scanHit, signalsAtSubmit>>

Submitted == {p \in Paths : futures[p] # "none"}

\* executor.submit(_analyze_one, item) for the next item of uncached
SubmitStep ==
    /\ UNCHANGED <<analysisVars, fnVars, cacheVars, loopVars, uiVars>>
    /\ bpc = "submit"
    /\ \E k \in 1..Len(uncached) :
          /\ futures[uncached[k]] = "none"
          /\ \A j \in 1..(k - 1) : futures[uncached[j]] # "none"
          /\ futures' = [futures EXCEPT ![uncached[k]] = "pending"]
          /\ workq' = Append(workq, uncached[k])
    /\ signalsAtSubmit' = IF signalsAtSubmit = -1 THEN Len(signals)
                          ELSE signalsAtSubmit
    /\ UNCHANGED <<files, cache, bpc, cancelled, scanIdx, uncached, completed,
                   cached_count, yielded, worker, signals, cancelCalled,
                   begun, scanHit>>

SubmitEnd ==
    /\ UNCHANGED <<analysisVars, fnVars, cacheVars, loopVars, uiVars>>
    /\ bpc = "submit"
    /\ \A k \in 1..Len(uncached) : futures[uncached[k]] # "none"
    /\ bpc' = "drain"
    /\ UNCHANGED <<files, cache, cancelled, scanIdx, uncached, completed,
                   cached_count, workq, futures, yielded, worker, signals,
                   cancelCalled, begun, scanHit, signalsAtSubmit>>

FutureDone(p) == futures[p] \in {"skipped", "ok", "error"}

\* One iteration of "for future in as_completed(futures)"
DrainStep ==
    /\ UNCHANGED <<analysisVars, fnVars, cacheVars, loopVars, uiVars>>
    /\ bpc = "drain"
    /\ \E p \in Submitted \ yielded :
          /\ FutureDone(p)
          /\ yielded' = yielded \cup {p}
          /\ IF cancelled
             THEN /\ bpc' = "shutdown"
                  /\ UNCHANGED <<completed, signals>>
             ELSE /\ completed' = completed + 1
                  /\ signals' = signals \o
                        (CASE futures[p] = "ok" ->
                                 << Sig("track_done", p, "new", completed + 1, Total) >>
                           [] futures[p] = "error" ->
                                 << Sig("error", p, "msg", 0, 0) >>
                           [] OTHER -> << >>)
                        \o << Sig("progress", 0, Null, completed + 1, Total) >>
                  /\ UNCHANGED bpc
    /\ UNCHANGED <<files, cache, cancelled, scanIdx, uncached, cached_count,
                   workq, futures, worker, cancelCalled, begun, scanHit,
                   signalsAtSubmit>>

DrainEnd ==
    /\ UNCHANGED <<analysisVars, fnVars, cacheVars, loopVars, uiVars>>
    /\ bpc = "drain"
    /\ Submitted \subseteq yielded
    /\ bpc' = "shutdown"
    /\ UNCHANGED <<files, cache, cancelled, scanIdx, uncached, completed,
                   cached_count, workq, futures, yielded, worker, signals,
                   cancelCalled, begun, scanHit, signalsAtSubmit>>

\* ThreadPoolExecutor.__exit__: shutdown(wait=True)
Shutdown ==
    /\ UNCHANGED <<analysisVars, fnVars, cacheVars, loopVars, uiVars>>
    /\ bpc = "shutdown"
    /\ workq = <<>>
    /\ \A w \in 1..MAX_WORKERS : worker[w].st = "idle"
    /\ bpc' = "final"
    /\ UNCHANGED <<files, cache, cancelled, scanIdx, uncached, completed,
                   cached_count, workq, futures, yielded, worker, signals,
                   cancelCalled, begun, scanHit, signalsAtSubmit>>

\* "if not self._cancelled: all_done.emit(total - cached_count, cached_count)"
Finish ==
    /\ UNCHANGED <<analysisVars, fnVars, cacheVars, loopVars, uiVars>>
    /\ bpc = "final"
    /\ signals' = IF cancelled THEN signals
                  ELSE Append(signals,
                         Sig("all_done", 0, Null, Total - cached_count, cached_count))
    /\ bpc' = "done"
    /\ UNCHANGED <<files, cache, cancelled, scanIdx, uncached, completed,
                   cached_count, workq, futures, yielded, worker,
                   cancelCalled, begun, scanHit, signalsAtSubmit>>

\* ------------------------------------------------------------------------
\* Pool workers running _analyze_one
\* ------------------------------------------------------------------------
\* a pool thread takes the next work item and runs "if self._cancelled"
WorkerTake(w) ==
    /\ UNCHANGED <<analysisVars, fnVars, cacheVars, loopVars, uiVars>>
    /\ worker[w].st = "idle"
    /\ workq # <<>>
    /\ LET p == Head(workq) IN
       /\ workq' = Tail(workq)
       /\ IF cancelled
          THEN /\ futures' = [futures EXCEPT ![p] = "skipped"]
               /\ UNCHANGED worker
          ELSE /\ worker' = [worker EXCEPT ![w] = [st |-> "checked", p |-> p]]
               /\ UNCHANGED futures
    /\ UNCHANGED <<files, cache, bpc, cancelled, scanIdx, uncached, completed,
                   cached_count, yielded, signals, cancelCalled, begun,
                   scanHit, signalsAtSubmit>>

\* analyzer = analyzer_pool[idx % MAX_WORKERS]; analyzer.analyze_track begins
WorkerBegin(w) ==
    /\ UNCHANGED <<analysisVars, fnVars, cacheVars, loopVars, uiVars>>
    /\ worker[w].st = "checked"
    /\ worker' = [worker EXCEPT ![w].st = "running"]
    /\ begun' = begun \cup {worker[w].p}
    /\ UNCHANGED <<files, cache, bpc, cancelled, scanIdx, uncached, completed,
                   cached_count, workq, futures, yielded, signals,
                   cancelCalled, scanHit, signalsAtSubmit>>

\* analyze_track returns or raises; save_cached; the future completes
WorkerFinish(w) ==
    /\ UNCHANGED <<analysisVars, fnVars, cacheVars, loopVars, uiVars>>
    /\ worker[w].st = "running"
    /\ LET p == worker[w].p IN
       IF files[p] = "ok"
       THEN /\ cache' = [cache EXCEPT ![p] = "new"]
            /\ futures' = [futures EXCEPT ![p] = "ok"]
       ELSE /\ futures' = [futures EXCEPT ![p] = "error"]
            /\ UNCHANGED cache
    /\ worker' = [worker EXCEPT ![w] = [st |-> "idle", p |-> 0]]
    /\ UNCHANGED <<files, bpc, cancelled, scanIdx, uncached, completed,
                   cached_count, workq, yielded, signals, cancelCalled,
                   begun, scanHit, signalsAtSubmit>>

\* ------------------------------------------------------------------------
\* UI thread: the second click on "Analyze All" (BatchThread.cancel)
\* ------------------------------------------------------------------------
IsRunning == bpc \notin {"idle", "done", "crashed"}

Cancel ==
    /\ UNCHANGED <<analysisVars, fnVars, cacheVars, loopVars, uiVars>>
    /\ IsRunning
    /\ cancelled' = TRUE
    /\ cancelCalled' = TRUE
    /\ UNCHANGED <<files, cache, bpc, scanIdx, uncached, completed,
                   cached_count, workq, futures, yielded, worker, signals,
                   begun, scanHit, signalsAtSubmit>>

BatchNext ==
    \/ StartBatch
    \/ EnterAnalyzeAll
    \/ ScanStep
    \/ ScanEnd
    \/ CheckNothingToDo
    \/ SubmitStep
    \/ SubmitEnd
    \/ DrainStep
    \/ DrainEnd
    \/ Shutdown
    \/ Finish
    \/ \E w \in 1..MAX_WORKERS : WorkerTake(w)
    \/ \E w \in 1..MAX_WORKERS : WorkerBegin(w)
    \/ \E w \in 1..MAX_WORKERS : WorkerFinish(w)
    \/ Cancel

\* ------------------------------------------------------------------------
\* Helpers
\* ------------------------------------------------------------------------
Min(a, b) == IF a < b THEN a ELSE b
Max(a, b) == IF a > b THEN a ELSE b

RECURSIVE SumSeq(_)
SumSeq(s) == IF s = <<>> THEN 0 ELSE Head(s) + SumSeq(Tail(s))

\* a / b rounded to the nearest integer (a >= 0, b > 0)
RoundDiv(a, b) == (2 * a + b) \div (2 * b)

\* ------------------------------------------------------------------------
\* AudioAnalyzer (analyzer/audio_analyzer.py)
\* ------------------------------------------------------------------------
\* _load_audio: sf.info/sf.read raise for a file libsndfile cannot open;
\* at most ANALYSIS_DURATION seconds are read; the excerpt is resampled
\* when the native rate differs.  What soxr does with an empty excerpt is
\* left open: it either raises or returns an empty array.
LoadAudio(f) ==
    IF ~f.openable
    THEN [raised |-> TRUE, len |-> 0]
    ELSE LET frames_to_read == Min(f.rate * ANALYSIS_DURATION, f.frames) IN
         IF f.rate # SAMPLE_RATE
         THEN IF frames_to_read = 0 /\ f.resampleEmptyRaises
              THEN [raised |-> TRUE, len |-> 0]
              ELSE [raised |-> FALSE,
                    len |-> (frames_to_read * SAMPLE_RATE) \div f.rate]
         ELSE [raised |-> FALSE, len |-> frames_to_read]

\* _compute_stft: n_frames of the centred framing of a buffer of y_len samples
ComputeStft(y_len) ==
    LET padded == y_len + 2 * (N_FFT \div 2) IN
    1 + (padded - N_FFT) \div HOP_LENGTH

\* The onset envelope np.diff leaves: one value per frame transition.  The
\* content of the excerpt is a click every `period` frames (0: silence).
SpectralFlux(n_frames, period) ==
    [i \in 1..(n_frames - 1) |->
        IF period > 0 /\ (i - 1) % period = 0 THEN 1 ELSE 0]

\* env = flux - flux.mean(), scaled by len(flux) to stay in the integers
Envelope(flux) ==
    [i \in 1..Len(flux) |-> Len(flux) * flux[i] - SumSeq(flux)]

\* corr[lag] of np.correlate(env, env, 'full')[len(corr) // 2:]
RECURSIVE CorrFrom(_, _, _)
CorrFrom(env, lag, i) ==
    IF i + lag > Len(env) THEN 0
    ELSE env[i] * env[i + lag] + CorrFrom(env, lag, i + 1)

Corr(env, lag) == CorrFrom(env, lag, 1)

BpmLagMin == Max(1, (SAMPLE_RATE * 60) \div (HOP_LENGTH * 200))
BpmLagMax(corr_len) == Min(corr_len - 1, (SAMPLE_RATE * 60) \div (HOP_LENGTH * 60))

\* the lags of the slice corr[lag_min:lag_max]
BpmLags(corr_len) == BpmLagMin..(BpmLagMax(corr_len) - 1)

\* np.argmax: the first index of the maximum
PeakLag(env) ==
    CHOOSE k \in BpmLags(Len(env)) :
        /\ \A j \in BpmLags(Len(env)) : Corr(env, j) <= Corr(env, k)
        /\ \A j \in BpmLags(Len(env)) : j < k => Corr(env, j) < Corr(env, k)

\* round(fps * 60 / peak_lag, 1), in tenths of a BPM
BpmOfLag(lag) == RoundDiv(SAMPLE_RATE * 60 * 10, HOP_LENGTH * lag)

\* _detect_bpm: np.correlate raises on an empty envelope, np.argmax on an
\* empty slice; any exception gives None
\* the bpm field: None, or a number of tenths of a BPM
NoBpm == <<>>
SomeBpm(tenths) == <<tenths>>

\* mutant: a failed estimate is reported as 0.0 instead of None
DetectBpm_ZeroOnFailure(flux, raises) ==
    IF raises \/ Len(flux) = 0 \/ BpmLags(Len(flux)) = {}
    THEN SomeBpm(0)
    ELSE SomeBpm(BpmOfLag(PeakLag(Envelope(flux))))

DetectBpm(flux, raises) ==
    IF raises \/ Len(flux) = 0 \/ BpmLags(Len(flux)) = {}
    THEN NoBpm
    ELSE SomeBpm(BpmOfLag(PeakLag(Envelope(flux))))

KeyNames == <<"C", "C#", "D", "D#", "E", "F", "F#", "G", "G#", "A", "A#", "B">>
CamelotMajor == <<"8B", "3B", "10B", "5B", "12B", "7B", "2B", "9B", "4B", "11B", "6B", "1B">>
CamelotMinor == <<"5A", "12A", "7A", "2A", "9A", "4A", "11A", "6A", "1A", "8A", "3A", "10A">>
OpenKeyNumbers == <<1, 8, 3, 10, 5, 12, 7, 2, 9, 4, 11, 6>>

IndexToKey(key_index, is_major) ==
    <<KeyNames[(key_index % 12) + 1], IF is_major THEN "Major" ELSE "Minor">>

\* mutant: the two tables are taken for each other
ToCamelot_SwappedModes(key_index, is_major) ==
    (IF is_major THEN CamelotMinor ELSE CamelotMajor)[(key_index % 12) + 1]

ToCamelot(key_index, is_major) ==
    (IF is_major THEN CamelotMajor ELSE CamelotMinor)[(key_index % 12) + 1]

ToOpenKey(key_index, is_major) ==
    <<OpenKeyNumbers[(key_index % 12) + 1], IF is_major THEN "m" ELSE "d">>

KeyDefault ==
    [notation |-> "Unknown", camelot |-> "N/A", open_key |-> "N/A",
     confidence |-> "none"]

\* _detect_key, from the argmax of the chroma and the major/minor decision
DetectKey(key_index, is_major, raises) ==
    IF raises
    THEN KeyDefault
    ELSE [notation   |-> IndexToKey(key_index, is_major),
          camelot    |-> ToCamelot(key_index, is_major),
          open_key   |-> ToOpenKey(key_index, is_major),
          confidence |-> "medium"]

\* thresholds of _calculate_energy_full, in thousandths
EnergyThresholds == <<50, 80, 110, 140, 170, 200, 230, 260, 300>>

EnergyDescriptions ==
    <<"Very Low", "Low", "Low-Med", "Medium", "Medium",
      "Med-High", "High", "High", "Very High", "Peak">>

\* next((i + 1 for i, t in enumerate(thresholds) if avg_rms < t), 10)
\* mutant: the comparison is "avg_rms <= t"
EnergyLevel_Inclusive(rms) ==
    IF \E i \in 1..Len(EnergyThresholds) : rms <= EnergyThresholds[i]
    THEN CHOOSE i \in 1..Len(EnergyThresholds) :
            /\ rms <= EnergyThresholds[i]
            /\ \A j \in 1..(i - 1) : ~(rms <= EnergyThresholds[j])
    ELSE 10

EnergyLevel(rms) ==
    IF \E i \in 1..Len(EnergyThresholds) : rms < EnergyThresholds[i]
    THEN CHOOSE i \in 1..Len(EnergyThresholds) :
            /\ rms < EnergyThresholds[i]
            /\ \A j \in 1..(i - 1) : ~(rms < EnergyThresholds[j])
    ELSE 10

EnergyDefault == [level |-> 5, rms |-> 0, description |-> "Unknown"]

\* _calculate_energy_full: the whole file is read in blocks; a file that
\* cannot be read, or that has no frames, gives the default
CalculateEnergyFull(f) ==
    IF f.energyRaises \/ f.frames = 0
    THEN EnergyDefault
    ELSE [level       |-> EnergyLevel(f.rms),
          rms         |-> f.rms,
          description |-> EnergyDescriptions[EnergyLevel(f.rms)]]

\* _extract_metadata / _default_metadata
ExtractMetadata(f) ==
    LET v == IF f.tags THEN "tag" ELSE "" IN
    [artist |-> v, title |-> v, album |-> v, genre |-> v, year |-> v,
     comment |-> v]

\* _get_audio_info / _default_audio_info
GetAudioInfo(f) ==
    IF f.tags
    THEN [format |-> "MP3", bitrate |-> 320, sample_rate |-> f.rate,
          channels |-> 2, file_size_mb |-> 1,
          duration |-> f.frames \div f.rate]
    ELSE [format |-> "MP3", bitrate |-> 0, sample_rate |-> 44100,
          channels |-> 2, file_size_mb |-> 1, duration |-> 0]

Raise(exc) == [raised |-> TRUE, error |-> exc]
Raised(r) == "raised" \in DOMAIN r

\* analyze_track
AnalyzeTrack(f) ==
    IF ~f.exists
    THEN Raise("FileNotFoundError")
    ELSE LET metadata   == ExtractMetadata(f)
             audio_info == GetAudioInfo(f)
             audio      == LoadAudio(f)
         IN  IF audio.raised
             THEN Raise("LibsndfileError")
             ELSE LET n_frames == ComputeStft(audio.len) IN
                  [file_path  |-> "abs_path",
                   filename   |-> "name",
                   bpm        |-> DetectBpm(SpectralFlux(n_frames, f.period),
                                            f.tempoRaises),
                   key        |-> DetectKey(f.key_index, f.is_major, f.keyRaises),
                   energy     |-> CalculateEnergyFull(f),
                   metadata   |-> metadata,
                   audio_info |-> audio_info,
                   duration   |-> audio_info.duration]

\* ------------------------------------------------------------------------
\* Single-track analysis: the files analyze_track is applied to
\* ------------------------------------------------------------------------
TrackHops == {0, 14, 16}

Tracks ==
    [exists : BOOLEAN, openable : BOOLEAN, tags : BOOLEAN,
     rate : {SAMPLE_RATE, 2 * SAMPLE_RATE},
     frames : {h * HOP_LENGTH : h \in TrackHops},
     period : {0, 5},
     key_index : {0, 9}, is_major : BOOLEAN,
     rms : {40, 100},
     tempoRaises : BOOLEAN, keyRaises : BOOLEAN, energyRaises : BOOLEAN,
     resampleEmptyRaises : BOOLEAN]

BatchParked ==
    /\ files = <<>>
    /\ cache = <<>>
    /\ futures = <<>>
    /\ bpc = "idle"
    /\ cancelled = FALSE
    /\ scanIdx = 1
    /\ uncached = <<>>
    /\ completed = 0
    /\ cached_count = 0
    /\ workq = <<>>
    /\ yielded = {}
    /\ worker = [w \in 1..MAX_WORKERS |-> [st |-> "idle", p |-> 0]]
    /\ signals = <<>>
    /\ cancelCalled = FALSE
    /\ begun = {}
    /\ scanHit = {}
    /\ signalsAtSubmit = -1

AnalysisParked ==
    /\ track = Null
    /\ apc = "parked"
    /\ result = Null

FnParked ==
    /\ fnIn = Null
    /\ fnPc = "parked"
    /\ fnOut = Null

CacheParked ==
    /\ fileStat = Null
    /\ cacheFiles = <<>>
    /\ cacheCall = Null
    /\ lastSave = Null
    /\ written = <<>>
    /\ nSaves = 0
    /\ nModified = 0

LoopParked ==
    /\ current_track = Null
    /\ position = Null
    /\ loop_a = Null
    /\ loop_b = Null
    /\ loop_active = FALSE
    /\ loopCall = Null

PlayerParked ==
    /\ state = Null
    /\ current_file = Null
    /\ duration = 0
    /\ loop_sound = FALSE
    /\ timer_active = FALSE
    /\ music = Null
    /\ playerCall = Null

SharedCacheParked ==
    /\ cacheFileLinked = FALSE
    /\ cacheFileText = Null
    /\ saver = Null
    /\ loader = Null
    /\ savedValue = Null
    /\ nSharedSaves = 0

ThreadParked ==
    /\ analysis_thread = 0
    /\ threads = <<>>
    /\ eventQueue = <<>>
    /\ applied = 0
    /\ threadCall = Null

QueueParked ==
    /\ queue = <<>>
    /\ rows = <<>>
    /\ dl_worker = 0
    /\ active_url = Null
    /\ workers = <<>>
    /\ dlEvents = <<>>
    /\ nQueued = 0
    /\ tabCall = Null

SyncParked ==
    /\ syncStateFile = Null
    /\ sync_worker = 0
    /\ syncWorkers = <<>>
    /\ announced = Null
    /\ startupDone = FALSE
    /\ syncCall = Null

UiParked ==
    /\ PlayerParked
    /\ SharedCacheParked
    /\ ThreadParked
    /\ QueueParked
    /\ SyncParked

\* a file without frames has no onsets and an all-zero chroma (argmax 0,
\* major); the outcome of resampling matters for an empty excerpt only
ValidTrack(f) ==
    /\ f.frames = 0 => (f.period = 0 /\ f.key_index = 0 /\ f.is_major)
    /\ f.resampleEmptyRaises => (f.frames = 0 /\ f.rate # SAMPLE_RATE)

AnalysisInit ==
    /\ track \in {f \in Tracks : ValidTrack(f)}
    /\ apc = "ready"
    /\ result = Null
    /\ BatchParked
    /\ FnParked
    /\ CacheParked
    /\ LoopParked
    /\ UiParked

\* AnalysisThread.run / _analyze_one: one call of analyze_track
CallAnalyzeTrack ==
    /\ apc = "ready"
    /\ result' = AnalyzeTrack(track)
    /\ apc' = IF Raised(AnalyzeTrack(track)) THEN "raised" ELSE "returned"
    /\ UNCHANGED <<track, batchVars, fnVars, cacheVars, loopVars, uiVars>>

AnalysisNext == CallAnalyzeTrack

SpecAnalysis == AnalysisInit /\ [][AnalysisNext]_vars

\* ------------------------------------------------------------------------
\* The energy mapping applied to every RMS value
\* ------------------------------------------------------------------------
EnergyInit ==
    /\ fnIn \in 0..MaxRms
    /\ fnPc = "ready"
    /\ fnOut = Null
    /\ BatchParked
    /\ AnalysisParked
    /\ CacheParked
    /\ LoopParked
    /\ UiParked

ApplyEnergyLevel ==
    /\ fnPc = "ready"
    /\ fnOut' = EnergyLevel(fnIn)
    /\ fnPc' = "applied"
    /\ UNCHANGED <<fnIn, batchVars, analysisVars, cacheVars, loopVars, uiVars>>

EnergyNext == ApplyEnergyLevel

SpecEnergy == EnergyInit /\ [][EnergyNext]_vars

\* ------------------------------------------------------------------------
\* The tempo estimator applied to onset envelopes
\* ------------------------------------------------------------------------
BpmInit ==
    /\ fnIn \in [len : 0..MaxEnvLen, period : 0..MaxPeriod]
    /\ fnPc = "ready"
    /\ fnOut = Null
    /\ BatchParked
    /\ AnalysisParked
    /\ CacheParked
    /\ LoopParked
    /\ UiParked

ApplyDetectBpm ==
    /\ fnPc = "ready"
    /\ fnOut' = DetectBpm(SpectralFlux(fnIn.len + 1, fnIn.period), FALSE)
    /\ fnPc' = "applied"
    /\ UNCHANGED <<fnIn, batchVars, analysisVars, cacheVars, loopVars, uiVars>>

BpmNext == ApplyDetectBpm

SpecBpm == BpmInit /\ [][BpmNext]_vars

\* ------------------------------------------------------------------------
\* Batch analysis specification
\* ------------------------------------------------------------------------
Init ==
    BatchInit /\ AnalysisParked /\ FnParked /\ CacheParked /\ LoopParked /\ UiParked
Next == BatchNext
Spec == Init /\ [][Next]_vars

\* ------------------------------------------------------------------------
\* Observations on the emitted signals
\* ------------------------------------------------------------------------
SignalsOf(type) == {i \in 1..Len(signals) : signals[i].type = type}

OutcomesFor(p) ==
    {i \in 1..Len(signals) :
        signals[i].type \in {"track_done", "error"} /\ signals[i].path = p}

ProgressValues ==
    LET idx == SelectSeq([i \in 1..Len(signals) |-> i],
                         LAMBDA i : signals[i].type = "progress")
    IN  [k \in 1..Len(idx) |-> signals[idx[k]].n]

\* paths that got track_done out of the cache / out of the pool
ServedFromCache ==
    {p \in Paths : \E i \in SignalsOf("track_done") :
        signals[i].path = p /\ p \notin Submitted}
NewlyAnalyzed ==
    {p \in Paths : \E i \in SignalsOf("track_done") :
        signals[i].path = p /\ p \in Submitted}

Running == {w \in 1..MAX_WORKERS : worker[w].st = "running"}

\* ------------------------------------------------------------------------
\* C1: once cancel() has been called for a started batch, no analyze_track
\* call begins for a path whose analysis had not already begun.
\* ------------------------------------------------------------------------
C1_NoTrackBeginsAfterCancel == [][cancelCalled => begun' = begun]_vars

\* ------------------------------------------------------------------------
\* C2: when cancel() is never called, analyze_all ends normally, every path
\* of the list has exactly one outcome signal (track_done for a cache hit or
\* a successful analysis, error for a failed one), progress counts 1..total
\* and all_done is emitted once, last.
\* ------------------------------------------------------------------------
C2_EveryPathGetsOneOutcome ==
    (~cancelCalled /\ bpc \in {"done", "crashed"}) =>
        /\ bpc = "done"
        /\ \A p \in Paths :
              /\ Cardinality(OutcomesFor(p)) = 1
              /\ \A i \in OutcomesFor(p) :
                    signals[i].type = "error" <=> files[p] = "fail" /\ p \in Submitted
        /\ ProgressValues = [k \in 1..Total |-> k]
        /\ SignalsOf("all_done") = {Len(signals)}

\* ------------------------------------------------------------------------
\* C3: all_done(analyzed, cached) reports the number of paths that got
\* track_done from the pool and the number of paths served from the cache.
\* ------------------------------------------------------------------------
C3_AllDoneCountsAreExact ==
    \A i \in SignalsOf("all_done") :
        /\ signals[i].m = Cardinality(ServedFromCache)
        /\ signals[i].n = Cardinality(NewlyAnalyzed)

\* ------------------------------------------------------------------------
\* C4: no two analyses that run at the same time use the same AudioAnalyzer
\* of analyzer_pool.
\* ------------------------------------------------------------------------
C4_NoSharedAnalyzer ==
    \A w1, w2 \in Running :
        w1 # w2 => AnalyzerFor(worker[w1].p) # AnalyzerFor(worker[w2].p)

\* ------------------------------------------------------------------------
\* C5: a path whose cache entry was readable when the first pass scanned it
\* is never submitted to the pool nor analysed, its track_done carries the
\* cached result, and every such track_done precedes the first submit.
\* ------------------------------------------------------------------------
C5_CacheHitsBypassThePool ==
    /\ scanHit \cap begun = {}
    /\ scanHit \cap Submitted = {}
    /\ \A p \in scanHit :
          \E i \in SignalsOf("track_done") :
              signals[i].path = p /\ signals[i].payload = "old"
    /\ \A i \in SignalsOf("track_done") :
          signals[i].path \in scanHit =>
              (signalsAtSubmit = -1 \/ i <= signalsAtSubmit)

C5_Witness ==
    /\ bpc = "done"
    /\ scanHit # {}
    /\ begun # {}
    /\ \E i \in SignalsOf("track_done") : signals[i].payload = "new"

\* ------------------------------------------------------------------------
\* C6: a failure of the tempo, key or energy stage (an energy read that
\* finds no frames included) leaves analyze_track returning a result: the
\* failed stage holds its default and every other field is what it is when
\* no stage fails.
\* ------------------------------------------------------------------------
NoStageRaises(f) ==
    [f EXCEPT !.tempoRaises = FALSE, !.keyRaises = FALSE, !.energyRaises = FALSE]

C6_StageFailuresGiveDefaults ==
    LET ref == AnalyzeTrack(NoStageRaises(track)) IN
    /\ apc # "ready" => (apc = "raised" <=> Raised(ref))
    /\ apc = "returned" =>
          /\ track.tempoRaises => result.bpm = <<>>
          /\ track.keyRaises =>
                result.key = [notation |-> "Unknown", camelot |-> "N/A",
                              open_key |-> "N/A", confidence |-> "none"]
          /\ (track.energyRaises \/ track.frames = 0) =>
                result.energy = [level |-> 5, rms |-> 0, description |-> "Unknown"]
          /\ ~track.tempoRaises => result.bpm = ref.bpm
          /\ ~track.keyRaises => result.key = ref.key
          /\ ~track.energyRaises => result.energy = ref.energy
          /\ \A k \in DOMAIN result \ {"bpm", "key", "energy"} : result[k] = ref[k]

C6_Witness ==
    /\ apc = "returned"
    /\ track.keyRaises /\ track.energyRaises /\ ~track.tempoRaises
    /\ result.key.notation = "Unknown"
    /\ result.energy.level = 5
    /\ result.bpm # <<>>

\* ------------------------------------------------------------------------
\* C7: analyze_track raises exactly when the file does not exist, cannot be
\* opened, or opens with zero decodable frames.
\* ------------------------------------------------------------------------
C7_RaisesExactlyWhenNoAudio ==
    apc # "ready" =>
        (apc = "raised" <=>
            (~track.exists \/ ~track.openable \/ track.frames = 0))

\* ------------------------------------------------------------------------
\* C8: a returned result has exactly the fields file_path, filename, bpm,
\* key, energy, metadata, audio_info, duration and features; key.notation
\* and key.camelot are present; audio_info has exactly format, bitrate,
\* sample_rate, channels, file_size_mb; features.mfcc has 20 entries and
\* features.chroma 12.
\* ------------------------------------------------------------------------
C8_ResultHasExactlyTheFields ==
    apc = "returned" =>
        /\ DOMAIN result = {"file_path", "filename", "bpm", "key", "energy",
                            "metadata", "audio_info", "duration", "features"}
        /\ {"notation", "camelot"} \subseteq DOMAIN result.key
        /\ DOMAIN result.audio_info =
              {"format", "bitrate", "sample_rate", "channels", "file_size_mb"}
        /\ Len(result.features.mfcc) = 20
        /\ Len(result.features.chroma) = 12

\* ------------------------------------------------------------------------
\* C9: the energy level of an RMS value r is 1 + the number of thresholds
\* of [0.05, 0.08, 0.11, 0.14, 0.17, 0.20, 0.23, 0.26, 0.30] that r meets
\* or exceeds: in 1..10, non-decreasing in r, the higher level at a
\* threshold, and 0.04, 0.10, 0.29, 0.35 give 1, 3, 9, 10.
\* ------------------------------------------------------------------------
C9_Thresholds == <<50, 80, 110, 140, 170, 200, 230, 260, 300>>

C9_EnergyLevelCountsThresholds ==
    fnPc = "applied" =>
        /\ fnOut = 1 + Cardinality({i \in 1..9 : fnIn >= C9_Thresholds[i]})
        /\ fnOut \in 1..10
        /\ \A r \in 0..fnIn : EnergyLevel(r) <= fnOut
        /\ \A i \in 1..9 : fnIn = C9_Thresholds[i] => fnOut = i + 1
        /\ fnIn = 40 => fnOut = 1
        /\ fnIn = 100 => fnOut = 3
        /\ fnIn = 290 => fnOut = 9
        /\ fnIn = 350 => fnOut = 10

C9_Witness == fnPc = "applied" /\ fnIn = 300 /\ fnOut = 10

\* ------------------------------------------------------------------------
\* C10: every non-null BPM of the tempo estimator lies in [60, 200], the
\* peak being searched only over lags whose tempo is in that range.
\* ------------------------------------------------------------------------
C10_BpmWithin60And200 ==
    (fnPc = "applied" /\ fnOut # <<>>) =>
        (600 <= fnOut[1] /\ fnOut[1] <= 2000)

\* ------------------------------------------------------------------------
\* C11: on degenerate input (an onset envelope that is identically zero, or
\* one too short to contain a lag of the search range) the tempo estimator
\* returns null, never a number.
\* ------------------------------------------------------------------------
EnvelopeIsZero(flux) == \A i \in 1..Len(flux) : Envelope(flux)[i] = 0

C11_DegenerateInputGivesNull ==
    fnPc = "applied" =>
        LET flux == SpectralFlux(fnIn.len + 1, fnIn.period) IN
        (EnvelopeIsZero(flux) \/ Len(flux) - 1 <= 12) => fnOut = <<>>

\* ------------------------------------------------------------------------
\* Key estimator (AudioAnalyzer._detect_key, _is_major_key)
\* ------------------------------------------------------------------------
\* Krumhansl-Schmuckler profiles, in hundredths
MajorProfile == <<635, 223, 348, 233, 438, 409, 252, 519, 239, 366, 229, 288>>
MinorProfile == <<633, 268, 352, 538, 260, 397, 273, 517, 300, 400, 194, 317>>

\* int(30 * sr / self.HOP_LENGTH)
KeyWindowFrames == (30 * SAMPLE_RATE) \div HOP_LENGTH

\* A spectrogram as the key estimator sees it: n1 frames whose power falls
\* on the pitch classes as c1, followed by n2 frames that fall as c2.
\* _compute_chroma over S_power[:, :n]: the mean over the first n frames,
\* here times n (argmax and the profile comparison do not depend on scale).
ChromaOf(S, n) ==
    LET k1 == Min(S.n1, n)
        k2 == Min(S.n2, n - k1)
    IN  [pc \in 1..12 |-> k1 * S.c1[pc] + k2 * S.c2[pc]]

RECURSIVE ScoreFrom(_, _, _, _)
ScoreFrom(c, i, profile, j) ==
    IF j > 12 THEN 0
    ELSE c[((j - 1 + i) % 12) + 1] * profile[j] + ScoreFrom(c, i, profile, j + 1)

\* np.dot(np.roll(chroma_norm, -i), profile), up to the common positive scale
Score(c, i, profile) == ScoreFrom(c, i, profile, 1)

BestScore(c, profile) ==
    LET scores == {Score(c, i, profile) : i \in 0..11} IN
    CHOOSE s \in scores : \A t \in scores : t <= s

\* a * m as <<thousands, rest>>, so that the product keeps its full width
MulWide(a, m) ==
    LET q == a \div 1000
        r == a % 1000
    IN  <<q * m + (r * m) \div 1000, (r * m) % 1000>>

WideGeq(x, y) == x[1] > y[1] \/ (x[1] = y[1] /\ x[2] >= y[2])

\* max(scores_maj) >= max(scores_min), each profile normalised by its sum
IsMajorKey(c) ==
    WideGeq(MulWide(BestScore(c, MajorProfile), SumSeq(MinorProfile)),
            MulWide(BestScore(c, MinorProfile), SumSeq(MajorProfile)))

\* the rotation that correlates best with the profile of the mode decided
BestRotation(c) ==
    LET profile == IF IsMajorKey(c) THEN MajorProfile ELSE MinorProfile IN
    CHOOSE i \in 0..11 :
        /\ Score(c, i, profile) = BestScore(c, profile)
        /\ \A j \in 0..(i - 1) : Score(c, j, profile) < BestScore(c, profile)

\* int(np.argmax(chroma_avg)): 0-based, the first index of the maximum
\* mutant: the tonic is the rotation with the best profile score
ArgMax_BestRotation(c) == BestRotation(c)

ArgMax(c) ==
    CHOOSE k \in 0..11 :
        /\ \A j \in 0..11 : c[j + 1] <= c[k + 1]
        /\ \A j \in 0..(k - 1) : c[j + 1] < c[k + 1]

\* _detect_key on a spectrogram of S.n1 + S.n2 frames
DetectKeyOfSpectrogram(S) ==
    LET n_frames_30s == Min(KeyWindowFrames, S.n1 + S.n2)
        chroma_avg   == ChromaOf(S, n_frames_30s)
    IN  DetectKey(ArgMax(chroma_avg), IsMajorKey(chroma_avg), FALSE)

\* chroma shapes: a floor, plus energy on two pitch classes
ChromaShape(base, p1, v1, p2, v2) ==
    [pc \in 1..12 |-> base + (IF pc = p1 + 1 THEN v1 ELSE 0)
                           + (IF pc = p2 + 1 THEN v2 ELSE 0)]

KeySpectrograms ==
    {[n1 |-> n1, c1 |-> ChromaShape(base, p1, v1, p2, v2),
      n2 |-> n2, c2 |-> ChromaShape(0, q, 5, (q + 5) % 12, 4)] :
        n1 \in {1, KeyWindowFrames}, n2 \in {0, 2 * KeyWindowFrames},
        base \in {0, 1}, p1 \in 0..11, v1 \in {0, 3}, p2 \in 0..11,
        v2 \in {0, 2}, q \in {2, 11}}

KeyInit ==
    /\ fnIn \in KeySpectrograms
    /\ fnPc = "ready"
    /\ fnOut = Null
    /\ BatchParked
    /\ AnalysisParked
    /\ CacheParked
    /\ LoopParked
    /\ UiParked

ApplyDetectKey ==
    /\ fnPc = "ready"
    /\ fnOut' = DetectKeyOfSpectrogram(fnIn)
    /\ fnPc' = "applied"
    /\ UNCHANGED <<fnIn, batchVars, analysisVars, cacheVars, loopVars, uiVars>>

KeyNext == ApplyDetectKey

SpecKey == KeyInit /\ [][KeyNext]_vars

\* the codes of the standard wheel, by number
WheelA == <<"1A", "2A", "3A", "4A", "5A", "6A", "7A", "8A", "9A", "10A", "11A", "12A">>
WheelB == <<"1B", "2B", "3B", "4B", "5B", "6B", "7B", "8B", "9B", "10B", "11B", "12B">>

IsWheelCode(code, wheel) == \E n \in 1..12 : wheel[n] = code
WheelNumber(code, wheel) == CHOOSE n \in 1..12 : wheel[n] = code

\* C12: the Camelot lookup reproduces the standard wheel. Major keys map to
\* nB and minor keys to nA; the 24 codes are pairwise distinct; C major is 8B
\* and C minor 5A; a major key and its relative minor (p + 9) share a number;
\* a fifth up (p + 7) within a mode advances the number by one modulo 12.
\* The code the key estimator reports is the lookup of the key it reports.
C12_CamelotIsTheStandardWheel ==
    /\ \A p \in 0..11 :
        /\ IsWheelCode(ToCamelot(p, TRUE), WheelB)
        /\ IsWheelCode(ToCamelot(p, FALSE), WheelA)
        /\ WheelNumber(ToCamelot(p, TRUE), WheelB)
             = WheelNumber(ToCamelot((p + 9) % 12, FALSE), WheelA)
        /\ \A m \in BOOLEAN :
             LET wheel == IF m THEN WheelB ELSE WheelA IN
             WheelNumber(ToCamelot((p + 7) % 12, m), wheel)
                = (WheelNumber(ToCamelot(p, m), wheel) % 12) + 1
    /\ \A p, q \in 0..11 : \A m, n \in BOOLEAN :
         ToCamelot(p, m) = ToCamelot(q, n) => (p = q /\ m = n)
    /\ ToCamelot(0, TRUE) = "8B"
    /\ ToCamelot(0, FALSE) = "5A"
    /\ fnPc = "applied" =>
         \E p \in 0..11 : \E m \in BOOLEAN :
            /\ fnOut.notation = IndexToKey(p, m)
            /\ fnOut.camelot = (IF m THEN WheelB ELSE WheelA)[
                                  ((7 * p + (IF m THEN 7 ELSE 4)) % 12) + 1]

C12_Witness ==
    /\ fnPc = "applied"
    /\ fnOut.notation = <<"A", "Minor">>
    /\ fnOut.camelot = "8A"

\* the chroma the key estimator averages: the first
\* min(int(30 * sr / hop), n_frames) frames of the spectrogram
WindowedChroma ==
    LET n_frames == fnIn.n1 + fnIn.n2
        window   == (30 * SAMPLE_RATE) \div HOP_LENGTH
    IN  ChromaOf(fnIn, IF window < n_frames THEN window ELSE n_frames)

\* score of rotation i under the profile, normalised by the profile's sum,
\* is at least that of rotation j under the other profile
ScoreAtLeast(c, i, profile, j, other) ==
    WideGeq(MulWide(Score(c, i, profile), SumSeq(other)),
            MulWide(Score(c, j, other), SumSeq(profile)))

DecimalDigits == <<"0", "1", "2", "3", "4", "5", "6", "7", "8", "9">>

\* f"{_i}": the decimal digits of a non-negative integer below 100
FormatInt(i) ==
    IF i < 10 THEN DecimalDigits[i + 1]
    ELSE DecimalDigits[(i \div 10) + 1] \o DecimalDigits[(i % 10) + 1]

\* the dict built at import: for _i in range(1, 13)
CamelotOrderItems ==
    {<<FormatInt(i) \o "A", (i - 1) * 2>> : i \in 1..12}
        \cup {<<FormatInt(i) \o "B", (i - 1) * 2 + 1>> : i \in 1..12}

\* mutant: an unknown string gets key 0
CamelotSortKey_UnknownFirst(camelot) ==
    IF \E item \in CamelotOrderItems : item[1] = camelot
    THEN (CHOOSE item \in CamelotOrderItems : item[1] = camelot)[2]
    ELSE 0

\* _CAMELOT_ORDER.get(camelot, 24)
CamelotSortKey(camelot) ==
    IF \E item \in CamelotOrderItems : item[1] = camelot
    THEN (CHOOSE item \in CamelotOrderItems : item[1] = camelot)[2]
    ELSE 24

\* what the key column of a row can hold: the codes the analyzer writes,
\* its "N/A", the placeholder of a row not yet analyzed, and other text
KeyColumnTexts ==
    {CamelotMajor[i] : i \in 1..12} \cup {CamelotMinor[i] : i \in 1..12}
        \cup {"N/A", "--", "", "13A", "0B", "1a", "12C", "A1", "01A"}

SortKeyInit ==
    /\ fnIn \in KeyColumnTexts \X KeyColumnTexts
    /\ fnPc = "ready"
    /\ fnOut = Null
    /\ BatchParked
    /\ AnalysisParked
    /\ CacheParked
    /\ LoopParked
    /\ UiParked

\* the keys of two rows of the table
ApplyCamelotSortKey ==
    /\ fnPc = "ready"
    /\ fnOut' = <<CamelotSortKey(fnIn[1]), CamelotSortKey(fnIn[2])>>
    /\ fnPc' = "applied"
    /\ UNCHANGED <<fnIn, batchVars, analysisVars, cacheVars, loopVars, uiVars>>

SortKeyNext == ApplyCamelotSortKey

SpecSortKey == SortKeyInit /\ [][SortKeyNext]_vars

\* position of a code in the order 1A, 1B, 2A, 2B, ..., 12A, 12B (1..24),
\* 0 for any other string
RankOnWheel(s) ==
    IF \E n \in 1..12 : WheelA[n] = s
    THEN 2 * (CHOOSE n \in 1..12 : WheelA[n] = s) - 1
    ELSE IF \E n \in 1..12 : WheelB[n] = s
         THEN 2 * (CHOOSE n \in 1..12 : WheelB[n] = s)
         ELSE 0

\* C19: the sort key orders the 24 codes as 1A < 1B < 2A < ... < 12A < 12B,
\* and every other string gets a key strictly greater than all of theirs.
C19_SortKeyFollowsTheWheel ==
    fnPc = "applied" =>
        LET a == fnIn[1]
            b == fnIn[2]
        IN  /\ (RankOnWheel(a) > 0 /\ RankOnWheel(b) > 0) =>
                 (fnOut[1] < fnOut[2] <=> RankOnWheel(a) < RankOnWheel(b))
            /\ (RankOnWheel(a) > 0 /\ RankOnWheel(b) = 0) => fnOut[1] < fnOut[2]
            /\ (RankOnWheel(a) = 0 /\ RankOnWheel(b) > 0) => fnOut[2] < fnOut[1]

C19_Witness ==
    /\ fnPc = "applied"
    /\ fnIn = <<"N/A", "12B">>
    /\ fnOut[2] < fnOut[1]

\* ------------------------------------------------------------------------
\* The result cache (batch_analyzer._cache_key, load_cached, save_cached,
\* is_cached)
\* ------------------------------------------------------------------------
MaxMtime == 2
MaxSaves == 3
MaxModified == 3

FileSizes == {4, 8}
FileStats == [mtime : 1..MaxMtime, size : FileSizes]

\* Python values
PyNone == [none |-> TRUE]
PyFloat(tenths) == [float |-> tenths]
PyInt(n) == [int |-> n]
PyStr(s) == [str |-> s]
PyDict(d) == [dict |-> d]

\* json.dump: a float is written with its fraction ("103.4", "128.0"), an
\* int without one, None as null, a dict as an object of its items
RECURSIVE JsonDump(_)
JsonDump(v) ==
    IF "none" \in DOMAIN v THEN [null |-> TRUE]
    ELSE IF "float" \in DOMAIN v
         THEN [number |-> <<v.float \div 10, v.float % 10>>]
    ELSE IF "int" \in DOMAIN v THEN [number |-> <<v.int>>]
    ELSE IF "str" \in DOMAIN v THEN [string |-> v.str]
    ELSE [object |-> [k \in DOMAIN v.dict |-> JsonDump(v.dict[k])]]

\* a cache file whose write did not complete
TornText == [torn |-> TRUE]

JsonDecodeError == [raised |-> "JSONDecodeError"]

\* json.load: a number with a fraction is a float, one without is an int
RECURSIVE JsonLoad(_)
JsonLoad(t) ==
    IF "torn" \in DOMAIN t THEN JsonDecodeError
    ELSE IF "null" \in DOMAIN t THEN PyNone
    ELSE IF "number" \in DOMAIN t
         THEN IF Len(t.number) = 2
              THEN PyFloat(10 * t.number[1] + t.number[2])
              ELSE PyInt(t.number[1])
    ELSE IF "string" \in DOMAIN t THEN PyStr(t.string)
    ELSE PyDict([k \in DOMAIN t.object |-> JsonLoad(t.object[k])])

\* the file, spelled relative to the working directory or from the root
WorkingDirectory == <<"music">>
FileSpellings ==
    {[anchored |-> FALSE, parts |-> <<"a.mp3">>],
     [anchored |-> TRUE, parts |-> <<"music", "a.mp3">>]}

\* Path.absolute()
Absolute(p) ==
    IF p.anchored THEN p
    ELSE [anchored |-> TRUE, parts |-> WorkingDirectory \o p.parts]

\* str(path) of an absolute path
RECURSIVE PathString(_)
PathString(parts) ==
    IF parts = <<>> THEN <<>>
    ELSE <<"/", Head(parts)>> \o PathString(Tail(parts))

\* mutant: the key is made of the path alone
CacheKey_PathOnly(p, stat) ==
    [md5 |-> PathString(Absolute(p).parts)]

\* _cache_key: the md5 hex digest of "<absolute path>|<mtime>|<size>"; the
\* digest is kept as the string it is taken of
CacheKey(p, stat) ==
    [md5 |-> PathString(Absolute(p).parts) \o <<"|", stat.mtime, "|", stat.size>>]

\* the results handed to save_cached
CachedResults ==
    {PyDict([bpm |-> PyFloat(1034), filename |-> PyStr("test.mp3")]),
     PyDict([bpm |-> PyNone,
             key |-> PyDict([camelot |-> PyStr("N/A")]),
             energy |-> PyDict([level |-> PyInt(5), rms |-> PyFloat(0)])]),
     PyDict([bpm |-> PyFloat(1280),
             key |-> PyDict([camelot |-> PyStr("8B")]),
             energy |-> PyDict([level |-> PyInt(7), rms |-> PyFloat(2)])])}

CacheExists(key) == key \in DOMAIN cacheFiles

WriteFile(dir, key, text) ==
    [k \in DOMAIN dir \cup {key} |-> IF k = key THEN text ELSE dir[k]]

Unlink(dir, key) == [k \in DOMAIN dir \ {key} |-> dir[k]]

NoCall == [op |-> "none"]
NoSave == [complete |-> FALSE, never |-> TRUE]

CacheInit ==
    /\ fileStat \in FileStats
    /\ cacheFiles = <<>>
    /\ cacheCall = NoCall
    /\ lastSave = NoSave
    /\ written = [s \in FileStats |-> PyNone]
    /\ nSaves = 0
    /\ nModified = 0
    /\ BatchParked
    /\ AnalysisParked
    /\ FnParked
    /\ LoopParked
    /\ UiParked

\* the file is rewritten or touched: its mtime, its size or both change
ModifyFile ==
    /\ nModified < MaxModified
    /\ \E s \in FileStats \ {fileStat} : fileStat' = s
    /\ nModified' = nModified + 1
    /\ UNCHANGED <<cacheFiles, cacheCall, lastSave, written, nSaves>>
    /\ UNCHANGED <<batchVars, analysisVars, fnVars, loopVars, uiVars>>

CallCacheKey(p) ==
    /\ cacheCall' = [op |-> "key", stat |-> fileStat, ret |-> CacheKey(p, fileStat)]
    /\ UNCHANGED <<fileStat, cacheFiles, lastSave, written, nSaves, nModified>>
    /\ UNCHANGED <<batchVars, analysisVars, fnVars, loopVars, uiVars>>

\* save_cached(p, r)
CallSaveCached(p, r) ==
    /\ nSaves < MaxSaves
    /\ cacheFiles' = WriteFile(cacheFiles, CacheKey(p, fileStat), JsonDump(r))
    /\ cacheCall' = [op |-> "save", stat |-> fileStat, ret |-> PyNone]
    /\ lastSave' = [complete |-> TRUE, stat |-> fileStat, value |-> r]
    /\ written' = [written EXCEPT ![fileStat] = r]
    /\ nSaves' = nSaves + 1
    /\ UNCHANGED <<fileStat, nModified>>
    /\ UNCHANGED <<batchVars, analysisVars, fnVars, loopVars, uiVars>>

\* save_cached(p, r) in a process that is killed after open(cache_file, 'w')
\* and before json.dump has written the whole text
SaveCachedInterrupted(p, r) ==
    /\ nSaves < MaxSaves
    /\ cacheFiles' = WriteFile(cacheFiles, CacheKey(p, fileStat), TornText)
    /\ cacheCall' = [op |-> "save", stat |-> fileStat, ret |-> [killed |-> TRUE]]
    /\ lastSave' = [complete |-> FALSE, stat |-> fileStat, value |-> r]
    /\ written' = [written EXCEPT ![fileStat] = PyNone]
    /\ nSaves' = nSaves + 1
    /\ UNCHANGED <<fileStat, nModified>>
    /\ UNCHANGED <<batchVars, analysisVars, fnVars, loopVars, uiVars>>

\* load_cached(p): the parsed file; a file that does not parse is removed
CallLoadCached(p) ==
    LET key == CacheKey(p, fileStat) IN
    /\ IF CacheExists(key)
       THEN LET loaded == JsonLoad(cacheFiles[key]) IN
            IF "raised" \in DOMAIN loaded
            THEN /\ cacheFiles' = Unlink(cacheFiles, key)
                 /\ cacheCall' = [op |-> "load", stat |-> fileStat, ret |-> PyNone]
            ELSE /\ cacheFiles' = cacheFiles
                 /\ cacheCall' = [op |-> "load", stat |-> fileStat, ret |-> loaded]
       ELSE /\ cacheFiles' = cacheFiles
            /\ cacheCall' = [op |-> "load", stat |-> fileStat, ret |-> PyNone]
    /\ UNCHANGED <<fileStat, lastSave, written, nSaves, nModified>>
    /\ UNCHANGED <<batchVars, analysisVars, fnVars, loopVars, uiVars>>

\* is_cached(p)
CallIsCached(p) ==
    /\ cacheCall' = [op |-> "is_cached", stat |-> fileStat,
                     ret |-> CacheExists(CacheKey(p, fileStat))]
    /\ UNCHANGED <<fileStat, cacheFiles, lastSave, written, nSaves, nModified>>
    /\ UNCHANGED <<batchVars, analysisVars, fnVars, loopVars, uiVars>>

CacheNext ==
    \/ ModifyFile
    \/ \E p \in FileSpellings : CallCacheKey(p)
    \/ \E p \in FileSpellings : \E r \in CachedResults : CallSaveCached(p, r)
    \/ \E p \in FileSpellings : \E r \in CachedResults : SaveCachedInterrupted(p, r)
    \/ \E p \in FileSpellings : CallLoadCached(p)
    \/ \E p \in FileSpellings : CallIsCached(p)

SpecCache == CacheInit /\ [][CacheNext]_vars

\* two _cache_key calls in a row on a file whose mtime and size are the same
\* return the same key, however the path is spelled
KeyIsStable ==
    (cacheCall.op = "key" /\ cacheCall'.op = "key"
        /\ cacheCall'.stat = cacheCall.stat) => cacheCall'.ret = cacheCall.ret

\* a load that follows a completed save_cached(p, r), the file's mtime and
\* size being those of the save, returns a dict equal to r
LoadReturnsWhatWasSaved ==
    (cacheCall.op = "load" /\ lastSave.complete
        /\ lastSave.stat = cacheCall.stat) => cacheCall.ret = lastSave.value

LoadAfterChange ==
    /\ cacheCall.op = "load"
    /\ "stat" \in DOMAIN lastSave
    /\ lastSave.stat # cacheCall.stat

\* C13 as stated: the key is a deterministic function of (absolute path,
\* mtime, size); save_cached(p, r) followed by load_cached(p) returns a dict
\* equal to r while mtime and size are unchanged; after a change of mtime or
\* size load_cached(p) returns None.
C13_StaleEntryIsNeverReturned ==
    /\ [][KeyIsStable]_vars
    /\ [](LoadReturnsWhatWasSaved /\ (LoadAfterChange => cacheCall.ret = PyNone))

\* C13, amended: as above, but after a change of mtime or size load_cached(p)
\* returns None only if no entry saved under the file's new mtime and size is
\* still in the cache; entries are never removed when the file changes, so a
\* file that comes back to an mtime and size it had at an earlier save gets
\* the dict of that save.
C13_StaleEntryIsReturnedForItsOwnStat ==
    /\ [][KeyIsStable]_vars
    /\ [](LoadReturnsWhatWasSaved
            /\ (LoadAfterChange => cacheCall.ret = written[cacheCall.stat]))

C13_Witness ==
    /\ LoadAfterChange
    /\ lastSave.complete
    /\ cacheCall.ret # PyNone
    /\ cacheCall.ret # lastSave.value

\* ------------------------------------------------------------------------
\* Similarity search (analyzer/similarity.py)
\* ------------------------------------------------------------------------
MaxCandidates == 3
MaxTopN == 2

N_MFCC == 20
N_CHROMA == 12
\* 1e-9, the norm below which no division is made; vector components are
\* whole multiples of 1e-10
NORM_EPS == 10

\* a / b rounded to the nearest integer, halves to the even one (b > 0)
RoundHalfEven(a, b) ==
    LET q == a \div b
        r == a % b
    IN  IF 2 * r < b THEN q
        ELSE IF 2 * r > b THEN q + 1
        ELSE IF q % 2 = 0 THEN q ELSE q + 1

RECURSIVE SqrtFrom(_, _)
SqrtFrom(n, r) == IF r * r >= n THEN r ELSE SqrtFrom(n, r + 1)

\* the square root of a perfect square
Sqrt(n) == SqrtFrom(n, 0)

\* file paths: <<stem, suffix>>
QueryPath == <<"q", ".mp3">>
TrackPaths == {QueryPath, <<"a", ".mp3">>, <<"b", ".mp3">>, <<"c", ".mp3">>}

PyList(s) == [list |-> s]

\* a list of n numbers, the first one x and the others 0
Spike(n, x) == PyList([i \in 1..n |-> IF i = 1 THEN x ELSE 0])

\* the cache of a track: no file, or the dict that was saved
NoCacheFile == [exists |-> FALSE]
CacheWithout(bpm, camelot) ==
    [exists |-> TRUE, data |-> [bpm |-> bpm, key |-> [camelot |-> camelot]]]
CacheWith(bpm, camelot, feats) ==
    [exists |-> TRUE,
     data |-> [bpm |-> bpm, key |-> [camelot |-> camelot], features |-> feats]]

\* features whose vector is (x, 0, ..., 0, y, 0, ..., 0)
Features(x, y) == [mfcc |-> Spike(N_MFCC, x), chroma |-> Spike(N_CHROMA, y)]

TypeError == [raised |-> "TypeError"]

\* None, where an array is expected
NoVector == <<>>

\* len(x) raises a TypeError for what is not a list
IsList(x) == "list" \in DOMAIN x

Returned(v) == [ret |-> v]

\* the try block of _load_feature_vector: what it returns, or what it raises
LoadFeatureVectorBody(entry) ==
    IF ~entry.exists THEN Returned(NoVector)
    ELSE LET data == entry.data
             feats == IF "features" \in DOMAIN data THEN data.features ELSE <<>>
         IN  IF DOMAIN feats = {} THEN Returned(NoVector)
             ELSE LET mfcc   == IF "mfcc" \in DOMAIN feats
                                THEN feats.mfcc ELSE PyList(<<>>)
                      chroma == IF "chroma" \in DOMAIN feats
                                THEN feats.chroma ELSE PyList(<<>>)
                  IN  IF ~IsList(mfcc) THEN TypeError
                      ELSE IF Len(mfcc.list) # N_MFCC THEN Returned(NoVector)
                      ELSE IF ~IsList(chroma) THEN TypeError
                      ELSE IF Len(chroma.list) # N_CHROMA THEN Returned(NoVector)
                      ELSE Returned(mfcc.list \o chroma.list)

\* mutant: the lengths are not looked at
LoadFeatureVector_AnyLength(entry) ==
    IF ~entry.exists \/ "features" \notin DOMAIN entry.data
        \/ DOMAIN entry.data.features # {"mfcc", "chroma"}
        \/ "list" \notin DOMAIN entry.data.features.mfcc
        \/ "list" \notin DOMAIN entry.data.features.chroma
    THEN NoVector
    ELSE entry.data.features.mfcc.list \o entry.data.features.chroma.list

\* _load_feature_vector: whatever is raised inside gives None
LoadFeatureVector(entry) ==
    LET out == LoadFeatureVectorBody(entry) IN
    IF "raised" \in DOMAIN out THEN NoVector ELSE out.ret

RECURSIVE DotFrom(_, _, _)
DotFrom(a, b, i) ==
    IF i > Len(a) THEN 0 ELSE a[i] * b[i] + DotFrom(a, b, i + 1)

\* np.dot of two vectors of the same length
Dot(a, b) == DotFrom(a, b, 1)

Norm(a) == Sqrt(Dot(a, a))

CosineZero == [num |-> 0, den |-> 1]

\* mutant: only the zero vector is kept from the division
CosineSimilarity_ZeroOnly(a, b) ==
    LET norm_a == Norm(a)
        norm_b == Norm(b)
    IN  IF norm_a < 1 \/ norm_b < 1
        THEN CosineZero
        ELSE [num |-> Dot(a, b), den |-> norm_a * norm_b]

\* _cosine_similarity, as the fraction num / den
CosineSimilarity(a, b) ==
    LET norm_a == Norm(a)
        norm_b == Norm(b)
    IN  IF norm_a < NORM_EPS \/ norm_b < NORM_EPS
        THEN CosineZero
        ELSE [num |-> Dot(a, b), den |-> norm_a * norm_b]

\* round((sim + 1.0) / 2.0, 4), in ten-thousandths
ReportedSimilarity(sim) == RoundHalfEven(10000 * (sim.num + sim.den), 2 * sim.den)

\* r put into a sorted list after its first n entries
InsertAt(sorted, n, r) ==
    SubSeq(sorted, 1, n) \o <<r>> \o SubSeq(sorted, n + 1, Len(sorted))

\* results.sort(key=similarity, reverse=True) is stable: an entry goes after
\* the entries of greater or equal similarity that precede it in the list
\* mutant: an entry goes before the entries of equal similarity
InsertDescending_BeforeEqual(sorted, r) ==
    InsertAt(sorted,
             Cardinality({k \in 1..Len(sorted) :
                            sorted[k].similarity > r.similarity}), r)

InsertDescending(sorted, r) ==
    InsertAt(sorted,
             Cardinality({k \in 1..Len(sorted) :
                            sorted[k].similarity >= r.similarity}), r)

RECURSIVE SortDescending(_)
SortDescending(results) ==
    IF results = <<>> THEN <<>>
    ELSE InsertDescending(SortDescending(SubSeq(results, 1, Len(results) - 1)),
                          results[Len(results)])

\* the loop over candidate_fps
RECURSIVE CollectResults(_, _, _, _)
CollectResults(query_fp, query_vec, candidate_fps, lib) ==
    IF candidate_fps = <<>> THEN <<>>
    ELSE LET fp   == Head(candidate_fps)
             rest == CollectResults(query_fp, query_vec, Tail(candidate_fps), lib)
             vec  == LoadFeatureVector(lib[fp])
         IN  IF fp = query_fp THEN rest
             ELSE IF vec = NoVector THEN rest
             ELSE <<[file_path  |-> fp,
                     name       |-> fp[1],
                     similarity |-> ReportedSimilarity(
                                        CosineSimilarity(query_vec, vec)),
                     bpm        |-> lib[fp].data.bpm,
                     key        |-> lib[fp].data.key.camelot]>> \o rest

\* results[:top_n] for top_n >= 0
Truncate(results, top_n) == SubSeq(results, 1, Min(top_n, Len(results)))

FindSimilar(query_fp, candidate_fps, lib, top_n) ==
    LET query_vec == LoadFeatureVector(lib[query_fp]) IN
    IF query_vec = NoVector THEN <<>>
    ELSE Truncate(SortDescending(
             CollectResults(query_fp, query_vec, candidate_fps, lib)), top_n)

\* the caches the tracks can have
QueryCaches ==
    {CacheWith(<<1280>>, "8B", Features(12, 16)),
     CacheWith(<<1280>>, "8B", Features(3, 4)),
     NoCacheFile}

CachesA ==
    {CacheWith(<<1240>>, "8A", Features(12, 16)),
     CacheWith(<<1240>>, "8A", Features(-12, -16))}

CachesB ==
    {CacheWith(<<>>, "N/A", Features(16, 12)),
     CacheWith(<<>>, "N/A", Features(5, 12)),
     CacheWith(<<>>, "N/A", Features(0, 0)),
     NoCacheFile,
     CacheWithout(<<>>, "N/A"),
     CacheWith(<<>>, "N/A", <<>>),
     CacheWith(<<>>, "N/A",
               [mfcc |-> Spike(N_MFCC - 1, 12), chroma |-> Spike(N_CHROMA, 16)]),
     CacheWith(<<>>, "N/A",
               [mfcc |-> Spike(N_CHROMA, 12), chroma |-> Spike(N_MFCC, 16)]),
     CacheWith(<<>>, "N/A", [mfcc |-> [int |-> 20], chroma |-> Spike(N_CHROMA, 16)])}

CachesC ==
    {CacheWith(<<1000>>, "1B", Features(12, 16)),
     CacheWith(<<1000>>, "1B", Features(-16, 12))}

Libraries ==
    {[p \in TrackPaths |->
        IF p = QueryPath THEN q
        ELSE IF p[1] = "a" THEN a
        ELSE IF p[1] = "b" THEN b ELSE c] :
        q \in QueryCaches, a \in CachesA, b \in CachesB, c \in CachesC}

CandidateLists ==
    UNION {[1..n -> TrackPaths] : n \in 0..MaxCandidates}

SimilarInit ==
    /\ fnIn \in [query : {QueryPath}, candidates : CandidateLists,
                 lib : Libraries, top_n : 0..MaxTopN]
    /\ fnPc = "ready"
    /\ fnOut = Null
    /\ BatchParked
    /\ AnalysisParked
    /\ CacheParked
    /\ LoopParked
    /\ UiParked

ApplyFindSimilar ==
    /\ fnPc = "ready"
    /\ fnOut' = FindSimilar(fnIn.query, fnIn.candidates, fnIn.lib, fnIn.top_n)
    /\ fnPc' = "applied"
    /\ UNCHANGED <<fnIn, batchVars, analysisVars, cacheVars, loopVars, uiVars>>

SimilarNext == ApplyFindSimilar

SpecSimilar == SimilarInit /\ [][SimilarNext]_vars

\* a cache entry that holds a usable feature vector: the file exists, it has
\* features, and these are an mfcc list of exactly 20 and a chroma list of
\* exactly 12 numbers
UsableEntry(entry) ==
    /\ entry.exists
    /\ "features" \in DOMAIN entry.data
    /\ DOMAIN entry.data.features = {"mfcc", "chroma"}
    /\ "list" \in DOMAIN entry.data.features.mfcc
    /\ "list" \in DOMAIN entry.data.features.chroma
    /\ Len(entry.data.features.mfcc.list) = 20
    /\ Len(entry.data.features.chroma.list) = 12

\* C14: whatever the candidate list (the query path may be in it, once or
\* several times), find_similar returns a list and raises nothing, no entry
\* of the list is for the query track, and no entry is for a candidate whose
\* cache entry is missing, has no features or has mfcc/chroma lengths other
\* than 20 and 12.
C14_NoQueryNoUnusableCandidate ==
    fnPc = "applied" =>
        /\ DOMAIN fnOut = 1..Len(fnOut)
        /\ \A i \in 1..Len(fnOut) :
            /\ fnOut[i].file_path # fnIn.query
            /\ UsableEntry(fnIn.lib[fnOut[i].file_path])

\* the query is in the list, with an unusable and a usable candidate: the
\* usable one alone is returned
C14_Witness ==
    /\ fnPc = "applied"
    /\ Len(fnIn.candidates) = 3
    /\ \E i \in 1..3 : fnIn.candidates[i] = fnIn.query
    /\ \E i \in 1..3 : /\ fnIn.candidates[i] # fnIn.query
                      /\ ~UsableEntry(fnIn.lib[fnIn.candidates[i]])
    /\ Len(fnOut) = 1

\* the 32 numbers of a usable entry
VectorOf(entry) == entry.data.features.mfcc.list \o entry.data.features.chroma.list

\* the place i of the candidate list holds a usable candidate
UsablePlace(i) ==
    /\ fnIn.candidates[i] # fnIn.query
    /\ UsableEntry(fnIn.lib[fnIn.candidates[i]])

\* the similarities reported for the places i, i + 1, ... of the candidate
\* list, -1 standing at the places that hold no usable candidate
RECURSIVE SimilaritiesFrom(_)
SimilaritiesFrom(i) ==
    IF i > Len(fnIn.candidates) THEN <<>>
    ELSE <<IF UsablePlace(i)
           THEN ReportedSimilarity(CosineSimilarity(
                    VectorOf(fnIn.lib[fnIn.query]),
                    VectorOf(fnIn.lib[fnIn.candidates[i]])))
           ELSE -1>> \o SimilaritiesFrom(i + 1)

\* the rank of place i: after the places of greater similarity and after
\* the earlier places of equal similarity
RankOf(i, sims) ==
    1 + Cardinality({j \in 1..Len(sims) :
            /\ sims[j] >= 0
            /\ sims[j] > sims[i] \/ (sims[j] = sims[i] /\ j < i)})

\* C15: find_similar returns at most top_n entries, in non-increasing order
\* of reported similarity, candidates of equal similarity in their order in
\* the candidate list; the entries returned are the first top_n of that
\* ranking of all usable candidates.
C15_TopNOfTheStableRanking ==
    (fnPc = "applied" /\ UsableEntry(fnIn.lib[fnIn.query])) =>
        LET sims   == SimilaritiesFrom(1)
            usable == {i \in 1..Len(sims) : sims[i] >= 0}
        IN  /\ Len(fnOut) <= fnIn.top_n
            /\ Len(fnOut) = Min(fnIn.top_n, Cardinality(usable))
            /\ \A k \in 1..(Len(fnOut) - 1) :
                  fnOut[k].similarity >= fnOut[k + 1].similarity
            /\ \A i \in usable :
                  RankOf(i, sims) <= fnIn.top_n =>
                     /\ fnOut[RankOf(i, sims)].file_path = fnIn.candidates[i]
                     /\ fnOut[RankOf(i, sims)].similarity = sims[i]

\* three usable candidates, two returned: c before a, of equal similarity
C15_Witness ==
    /\ fnPc = "applied"
    /\ Len(fnIn.candidates) = 3
    /\ \A i \in 1..3 : UsablePlace(i)
    /\ Len(fnOut) = 2
    /\ fnOut[1].file_path[1] = "c"
    /\ fnOut[2].file_path[1] = "a"
    /\ fnOut[1].similarity = fnOut[2].similarity

\* the vectors of the usable entries of the library
UsableVectors == {VectorOf(fnIn.lib[p]) : p \in {t \in TrackPaths : UsableEntry(fnIn.lib[t])}}

IsOne(sim) == sim.num = sim.den
IsZero(sim) == sim.num = 0

\* the norm of a is below 1e-9
BelowEps(a) == Dot(a, a) < 100

\* the cosine behind the entry of the result
CosineOfResult(r) ==
    CosineSimilarity(VectorOf(fnIn.lib[fnIn.query]), VectorOf(fnIn.lib[r.file_path]))

\* the query's vector, if it has one
QueryVectors ==
    IF UsableEntry(fnIn.lib[fnIn.query])
    THEN {VectorOf(fnIn.lib[fnIn.query])} ELSE {}

\* the cosine of the query's vector and each vector of the library
CosineOrthogonalAndGuard(vectors) ==
    \A a \in QueryVectors : \A b \in vectors :
        LET cos == CosineSimilarity(a, b) IN
        /\ Dot(a, b) = 0 => IsZero(cos)
        /\ (BelowEps(a) \/ BelowEps(b)) => cos = CosineZero

\* C16 as stated: _cosine_similarity(a, a) is 1 for every non-zero a; it is
\* 0 whenever dot(a, b) = 0; it returns 0.0 without dividing when a norm is
\* below 1e-9; the similarity reported is (cosine + 1) / 2, within [0, 1].
C16_CosineOfSelfIsOne ==
    fnPc = "applied" =>
        LET vectors == UsableVectors IN
        /\ \A a \in vectors :
              Dot(a, a) # 0 => IsOne(CosineSimilarity(a, a))
        /\ CosineOrthogonalAndGuard(vectors)
        /\ \A i \in 1..Len(fnOut) :
              LET cos == CosineOfResult(fnOut[i]) IN
              /\ fnOut[i].similarity * 2 * cos.den = 10000 * (cos.num + cos.den)
              /\ fnOut[i].similarity \in 0..10000

\* C16, amended: _cosine_similarity(a, a) is 1 for every vector a whose norm
\* is at least 1e-9 (a non-zero vector of smaller norm gives 0.0); it is 0
\* whenever dot(a, b) = 0; it returns 0.0 without dividing when a norm is
\* below 1e-9; the similarity reported is (cosine + 1) / 2 rounded to four
\* decimals, within [0, 1].
C16_CosineOfSelfIsOneAboveEps ==
    fnPc = "applied" =>
        LET vectors == UsableVectors IN
        /\ \A a \in vectors :
              IF BelowEps(a)
              THEN CosineSimilarity(a, a) = CosineZero
              ELSE IsOne(CosineSimilarity(a, a))
        /\ CosineOrthogonalAndGuard(vectors)
        /\ \A i \in 1..Len(fnOut) :
              LET cos  == CosineOfResult(fnOut[i])
                  diff == fnOut[i].similarity * 2 * cos.den
                            - 10000 * (cos.num + cos.den)
              IN  /\ diff <= cos.den
                  /\ -diff <= cos.den
                  /\ fnOut[i].similarity \in 0..10000

\* the query's vector is not zero and its norm is below 1e-9: a candidate
\* that is not orthogonal to it is reported with similarity 0.5
C16_Witness ==
    /\ fnPc = "applied"
    /\ UsableEntry(fnIn.lib[fnIn.query])
    /\ BelowEps(VectorOf(fnIn.lib[fnIn.query]))
    /\ Dot(VectorOf(fnIn.lib[fnIn.query]), VectorOf(fnIn.lib[fnIn.query])) # 0
    /\ \E i \in 1..Len(fnOut) :
          /\ Dot(VectorOf(fnIn.lib[fnIn.query]),
                 VectorOf(fnIn.lib[fnOut[i].file_path])) # 0
          /\ fnOut[i].similarity = 5000

\* ------------------------------------------------------------------------
\* Loop controls (MainWindow._set_loop_a, _set_loop_b, _toggle_loop,
\* _snap_loop, _on_position_changed)
\* ------------------------------------------------------------------------
\* Times and positions are fractions <<n, d>>, d > 0, in lowest terms.
RECURSIVE Gcd(_, _)
Gcd(a, b) == IF b = 0 THEN a ELSE Gcd(b, a % b)

Abs(n) == IF n < 0 THEN -n ELSE n

Frac(n, d) ==
    LET g == Gcd(Abs(n), Abs(d))
        s == IF d < 0 THEN -1 ELSE 1
    IN  <<(s * n) \div g, (s * d) \div g>>

FracMul(x, y) == Frac(x[1] * y[1], x[2] * y[2])
FracDiv(x, y) == Frac(x[1] * y[2], x[2] * y[1])
FracAdd(x, y) == Frac(x[1] * y[2] + y[1] * x[2], x[2] * y[2])
FracLeq(x, y) == x[1] * y[2] <= y[1] * x[2]
FracMin(x, y) == IF FracLeq(x, y) THEN x ELSE y
FracMax(x, y) == IF FracLeq(x, y) THEN y ELSE x

\* round(x) of a non-negative x: the nearest integer, halves to the even one
FracRound(x) == RoundHalfEven(x[1], x[2])

\* None, where a position is expected
NoPoint == <<>>
NoTrack == [loaded |-> FALSE]

\* the analysis results the window can show: bpm in tenths (or none),
\* duration in seconds
LoopTracks ==
    {[loaded |-> TRUE, bpm |-> <<1280>>, duration |-> 240],
     [loaded |-> TRUE, bpm |-> <<1034>>, duration |-> 200],
     [loaded |-> TRUE, bpm |-> <<>>, duration |-> 240],
     [loaded |-> TRUE, bpm |-> <<1280>>, duration |-> 0]}

\* where the playhead can be
PlayheadPositions ==
    {Frac(0, 1), Frac(1, 5), Frac(1, 4), Frac(1, 2), Frac(199, 200), Frac(1, 1)}

\* the snap buttons: 1/2, 1, 2, 4 and 8 bars
SnapBars == {Frac(1, 2), Frac(1, 1), Frac(2, 1), Frac(4, 1), Frac(8, 1)}

LoopInit ==
    /\ current_track = NoTrack
    /\ position = Frac(0, 1)
    /\ loop_a = NoPoint
    /\ loop_b = NoPoint
    /\ loop_active = FALSE
    /\ loopCall = [op |-> "none"]
    /\ BatchParked
    /\ AnalysisParked
    /\ FnParked
    /\ CacheParked
    /\ UiParked

LoopFrame == UNCHANGED <<batchVars, analysisVars, fnVars, cacheVars, uiVars>>

\* _on_analysis_done / _display_track: a track is shown, the loop is reset,
\* the player loads the file
DisplayTrack(t) ==
    /\ current_track' = t
    /\ loop_a' = NoPoint
    /\ loop_b' = NoPoint
    /\ loop_active' = FALSE
    /\ position' = Frac(0, 1)
    /\ loopCall' = [op |-> "display"]
    /\ LoopFrame

\* AudioPlayer.seek: the target is kept within the track
SeekTarget(p) == FracMax(Frac(0, 1), FracMin(p, Frac(1, 1)))

\* the playhead arrives at pos (playback, or a seek of the user) and
\* _on_position_changed runs: an active loop sends it back to A
PositionChanged(pos) ==
    /\ current_track.loaded
    /\ current_track.duration > 0
    /\ IF loop_active /\ loop_a # NoPoint /\ loop_b # NoPoint /\ FracLeq(loop_b, pos)
       THEN /\ position' = SeekTarget(loop_a)
            /\ loopCall' = [op |-> "position", pos |-> pos, wrapped |-> TRUE]
       ELSE /\ position' = pos
            /\ loopCall' = [op |-> "position", pos |-> pos, wrapped |-> FALSE]
    /\ UNCHANGED <<current_track, loop_a, loop_b, loop_active>>
    /\ LoopFrame

SetLoopA ==
    /\ IF ~current_track.loaded
       THEN UNCHANGED <<loop_a, loop_b, loop_active>>
       ELSE /\ loop_a' = position
            /\ loop_active' = FALSE
            /\ loop_b' = NoPoint
    /\ loopCall' = [op |-> "set_a", pos |-> position]
    /\ UNCHANGED <<current_track, position>>
    /\ LoopFrame

SetLoopB ==
    /\ IF ~current_track.loaded \/ loop_a = NoPoint
       THEN UNCHANGED loop_b
       ELSE IF FracLeq(position, loop_a)
            THEN UNCHANGED loop_b
            ELSE loop_b' = position
    /\ loopCall' = [op |-> "set_b", pos |-> position]
    /\ UNCHANGED <<current_track, position, loop_a, loop_active>>
    /\ LoopFrame

ToggleLoop ==
    /\ IF loop_a = NoPoint \/ loop_b = NoPoint
       THEN UNCHANGED loop_active
       ELSE loop_active' = ~loop_active
    /\ loopCall' = [op |-> "toggle"]
    /\ UNCHANGED <<current_track, position, loop_a, loop_b>>
    /\ LoopFrame

\* the bounds _snap_loop computes, as fractions of the track
SnapBounds(bpm, total, pos, bars) ==
    LET secs_per_bar == Frac(4 * 60 * 10, bpm)
        cur_secs     == FracMul(pos, Frac(total, 1))
        bar_num      == FracRound(FracDiv(cur_secs, secs_per_bar))
        a_secs       == FracMul(Frac(bar_num, 1), secs_per_bar)
        b_secs       == FracMin(FracAdd(a_secs, FracMul(bars, secs_per_bar)),
                                Frac(total, 1))
    IN  [a |-> FracDiv(a_secs, Frac(total, 1)),
         b |-> FracDiv(b_secs, Frac(total, 1))]

\* mutant: the loop starts at the playhead, not at a bar line
SnapLoop_FromPlayhead(bars) ==
    /\ IF ~current_track.loaded \/ current_track.bpm = <<>>
          \/ current_track.duration <= 0
       THEN UNCHANGED <<loop_a, loop_b, loop_active>>
       ELSE /\ loop_a' = position
            /\ loop_b' = SnapBounds(current_track.bpm[1], current_track.duration,
                                    position, bars).b
            /\ loop_active' = TRUE
    /\ loopCall' = [op |-> "snap", pos |-> position, bars |-> bars]
    /\ UNCHANGED <<current_track, position>>
    /\ LoopFrame

\* _snap_loop(bars)
SnapLoop(bars) ==
    /\ IF ~current_track.loaded \/ current_track.bpm = <<>>
          \/ current_track.duration <= 0
       THEN UNCHANGED <<loop_a, loop_b, loop_active>>
       ELSE LET bounds == SnapBounds(current_track.bpm[1],
                                     current_track.duration, position, bars)
            IN  /\ loop_a' = bounds.a
                /\ loop_b' = bounds.b
                /\ loop_active' = TRUE
    /\ loopCall' = [op |-> "snap", pos |-> position, bars |-> bars]
    /\ UNCHANGED <<current_track, position>>
    /\ LoopFrame

LoopNext ==
    \/ \E t \in LoopTracks : DisplayTrack(t)
    \/ \E pos \in PlayheadPositions : PositionChanged(pos)
    \/ SetLoopA
    \/ SetLoopB
    \/ ToggleLoop
    \/ \E bars \in SnapBars : SnapLoop(bars)

SpecLoop == LoopInit /\ [][LoopNext]_vars

\* C17 as stated: for a track of bpm 128 and duration 240 s, a snap to 4 bars
\* with the playhead at 0.2 (48 s) sets the loop bounds to 48.0 s and 55.5 s:
\* loop-in 0.2 and loop-out 55.5 / 240 = 0.23125.
SnapOf128At48 ==
    /\ loopCall.op = "snap"
    /\ loopCall.bars = Frac(4, 1)
    /\ loopCall.pos = Frac(2, 10)
    /\ current_track.bpm = <<1280>>
    /\ current_track.duration = 240

SnapStepWithInSet ==
    /\ loop_a # NoPoint
    /\ loopCall'.op = "snap"
    /\ current_track.loaded
    /\ current_track.bpm # <<>>
    /\ current_track.duration > 0

C18_SnapKeepsInPoint ==
    [][SnapStepWithInSet =>
          /\ loop_a' = loop_a
          /\ loop_b' = FracMin(
                 FracAdd(loop_a,
                         FracDiv(FracMul(loopCall'.bars,
                                         Frac(2400, current_track.bpm[1])),
                                 Frac(current_track.duration, 1))),
                 Frac(1, 1))]_vars

\* ------------------------------------------------------------------------
\* Short-time Fourier transform framing (AudioAnalyzer._compute_stft)

MaxBufferLen == 2600

\* np.pad(y, N_FFT // 2): the pad width on each side
PadWidth == N_FFT \div 2

\* len(y_pad)
PaddedLength_NoPad(n) == n
PaddedLength(n) == PadWidth + n + PadWidth

\* where element k (0-based) of y_pad comes from: 0 for a padding zero,
\* otherwise the 1-based index of the sample of y it copies
PaddedSource(n, k) ==
    IF k < PadWidth \/ k >= PadWidth + n THEN 0 ELSE k - PadWidth + 1

\* n_frames = 1 + (len(y_pad) - N_FFT) // HOP_LENGTH  (floor division)
NFrames(n) == 1 + (PaddedLength(n) - N_FFT) \div HOP_LENGTH

\* as_strided with strides (itemsize, itemsize * HOP_LENGTH): element (i, t)
\* of the framed view is element i + t * HOP_LENGTH of y_pad
FramedIndex(i, t) == i + t * HOP_LENGTH

\* the call on a buffer of n samples: the padded length, the frame count, and
\* the lowest and highest element of y_pad that the framed view covers
StridedFraming(n) ==
    LET n_frames == NFrames(n)
    IN  [padded |-> PaddedLength(n),
         n_frames |-> n_frames,
         first_read |-> FramedIndex(0, 0),
         last_read |-> FramedIndex(N_FFT - 1, n_frames - 1)]

StftInit ==
    /\ fnIn \in 0..MaxBufferLen
    /\ fnPc = "ready"
    /\ fnOut = Null
    /\ BatchParked
    /\ AnalysisParked
    /\ CacheParked
    /\ LoopParked
    /\ UiParked

ApplyStridedFraming ==
    /\ fnPc = "ready"
    /\ fnOut' = StridedFraming(fnIn)
    /\ fnPc' = "framed"
    /\ UNCHANGED <<fnIn, batchVars, analysisVars, cacheVars, loopVars, uiVars>>

StftNext == ApplyStridedFraming

SpecStft == StftInit /\ [][StftNext]_vars

\* C21: for every buffer length N >= 0 the transform pads 1024 zeros on each
\* side, produces 1 + floor((padded - 2048) / 512) = 1 + floor(N / 512) >= 1
\* frames, and every frame's window [t*512, t*512 + 2048) lies inside the
\* padded buffer.
C21_FramingStaysInsidePaddedBuffer ==
    fnPc = "framed" =>
        /\ fnOut.padded = fnIn + 2048
        /\ \A k \in 0..1023 :
               /\ PaddedSource(fnIn, k) = 0
               /\ PaddedSource(fnIn, fnOut.padded - 1 - k) = 0
        /\ fnOut.n_frames = 1 + (fnOut.padded - 2048) \div 512
        /\ fnOut.n_frames = 1 + fnIn \div 512
        /\ fnOut.n_frames >= 1
        /\ \A t \in 0..(fnOut.n_frames - 1) :
               /\ FramedIndex(0, t) = t * 512
               /\ FramedIndex(N_FFT - 1, t) = t * 512 + 2048 - 1
               /\ 0 <= t * 512
               /\ t * 512 + 2048 <= fnOut.padded
        /\ 0 <= fnOut.first_read
        /\ fnOut.last_read < fnOut.padded

\* a buffer shorter than one window, and one that is not a whole number of hops
C21_Witness ==
    /\ fnPc = "framed"
    /\ fnIn = 1300
    /\ fnOut.n_frames = 3
    /\ fnOut.last_read = 3071
    /\ fnOut.padded = 3348

\* C22: after any sequence of set-loop-A, set-loop-B, toggle-loop, bar-snap
\* and track-change operations at any playhead position, whenever both loop
\* points are set they satisfy 0 <= loop_a < loop_b <= 1, and the loop is
\* active only while both points are set.
C22_LoopPointsOrderedInsideTrack ==
    /\ (loop_a # NoPoint /\ loop_b # NoPoint) =>
           /\ FracLeq(Frac(0, 1), loop_a)
           /\ FracLeq(loop_a, loop_b)
           /\ loop_a # loop_b
           /\ FracLeq(loop_b, Frac(1, 1))
    /\ loop_active => (loop_a # NoPoint /\ loop_b # NoPoint)

\* ------------------------------------------------------------------------
\* The audio player (ui/audio_player.py)

\* PlayerState
STOPPED == "STOPPED"
PLAYING == "PLAYING"
PAUSED == "PAUSED"
LOOP_PLAYING == "LOOP_PLAYING"

PlayerState == {STOPPED, PLAYING, PAUSED, LOOP_PLAYING}

\* the files handed to load, and the durations handed to set_duration
PlayerFiles == {"a.mp3", "b.wav"}
PlayerDurations == {0, 240}

PlayerFrame ==
    UNCHANGED <<batchVars, analysisVars, fnVars, cacheVars, loopVars,
                sharedCacheVars, threadVars, queueVars, syncVars>>

\* __init__
PlayerInit ==
    /\ state = STOPPED
    /\ current_file = Null
    /\ duration = 0
    /\ loop_sound = FALSE
    /\ timer_active = FALSE
    /\ music = "stopped"
    /\ playerCall = [op |-> "init"]
    /\ BatchParked
    /\ AnalysisParked
    /\ FnParked
    /\ CacheParked
    /\ LoopParked
    /\ SharedCacheParked
    /\ ThreadParked
    /\ QueueParked
    /\ SyncParked

\* pygame.mixer.music.pause() / unpause() on the stream
MusicPaused == IF music = "playing" THEN "paused" ELSE music
MusicUnpaused == IF music = "paused" THEN "playing" ELSE music

\* the body of stop(): the loop sound is dropped, the stream stopped, the
\* timer stopped, position_changed(0.0) emitted
StopBody ==
    /\ loop_sound' = FALSE
    /\ music' = "stopped"
    /\ state' = STOPPED
    /\ timer_active' = FALSE

\* load(file_path): stop(), then the stream loads the file unless pygame raises
Load(f, ok) ==
    /\ StopBody
    /\ IF ok
       THEN current_file' = f /\ duration' = 0
       ELSE UNCHANGED <<current_file, duration>>
    /\ playerCall' = [op |-> "load"]
    /\ PlayerFrame

SetDuration(d) ==
    /\ duration' = d
    /\ playerCall' = [op |-> "set_duration"]
    /\ UNCHANGED <<state, current_file, loop_sound, timer_active, music>>
    /\ PlayerFrame

\* play(); ok = FALSE: pygame.mixer.music.play() raises
Play(ok) ==
    /\ IF current_file # Null /\ ok
       THEN /\ music' = "playing"
            /\ state' = PLAYING
            /\ timer_active' = TRUE
       ELSE UNCHANGED <<state, timer_active, music>>
    /\ playerCall' = [op |-> "play"]
    /\ UNCHANGED <<current_file, duration, loop_sound>>
    /\ PlayerFrame

\* pause(); ok = FALSE: pygame.mixer.music.pause() raises
Pause(ok) ==
    /\ IF state = LOOP_PLAYING
       THEN /\ loop_sound' = FALSE
            /\ music' = IF ok THEN MusicPaused ELSE music
            /\ state' = PAUSED
            /\ timer_active' = FALSE
       ELSE IF state = PLAYING /\ ok
            THEN /\ music' = MusicPaused
                 /\ state' = PAUSED
                 /\ timer_active' = FALSE
                 /\ UNCHANGED loop_sound
            ELSE UNCHANGED <<state, loop_sound, timer_active, music>>
    /\ playerCall' = [op |-> "pause"]
    /\ UNCHANGED <<current_file, duration>>
    /\ PlayerFrame

\* resume(); ok = FALSE: pygame.mixer.music.unpause() raises
Resume(ok) ==
    /\ IF state = PAUSED /\ ok
       THEN /\ music' = MusicUnpaused
            /\ state' = PLAYING
            /\ timer_active' = TRUE
       ELSE UNCHANGED <<state, timer_active, music>>
    /\ playerCall' = [op |-> "resume"]
    /\ UNCHANGED <<current_file, duration, loop_sound>>
    /\ PlayerFrame

Stop ==
    /\ StopBody
    /\ playerCall' = [op |-> "stop"]
    /\ UNCHANGED <<current_file, duration>>
    /\ PlayerFrame

\* seek(position); ok = FALSE: pygame.mixer.music.play(start=...) raises after
\* the stream was stopped
Seek(ok) ==
    /\ IF current_file = Null \/ duration <= 0
       THEN UNCHANGED <<state, timer_active, music>>
       ELSE IF ~ok
            THEN /\ music' = "stopped"
                 /\ UNCHANGED <<state, timer_active>>
            ELSE IF state = PLAYING
                 THEN /\ music' = "playing"
                      /\ state' = PLAYING
                      /\ timer_active' = TRUE
                 ELSE /\ music' = "paused"
                      /\ state' = PAUSED
                      /\ UNCHANGED timer_active
    /\ playerCall' = [op |-> "seek"]
    /\ UNCHANGED <<current_file, duration, loop_sound>>
    /\ PlayerFrame

\* start_loop(file_path, a_secs, b_secs); ok = FALSE: reading or decoding the
\* section raises before anything is assigned, False is returned
StartLoop(ok) ==
    /\ IF ok
       THEN /\ music' = MusicPaused
            /\ loop_sound' = TRUE
            /\ state' = LOOP_PLAYING
            /\ timer_active' = TRUE
       ELSE UNCHANGED <<state, loop_sound, timer_active, music>>
    /\ playerCall' = [op |-> "start_loop"]
    /\ UNCHANGED <<current_file, duration>>
    /\ PlayerFrame

\* stop_loop(); ok = FALSE: restarting the stream raises after it was stopped
StopLoop(ok) ==
    /\ IF ~loop_sound
       THEN UNCHANGED <<state, loop_sound, timer_active, music>>
       ELSE /\ loop_sound' = FALSE
            /\ state' = PLAYING
            /\ IF ok
               THEN music' = "playing" /\ timer_active' = TRUE
               ELSE music' = "stopped" /\ UNCHANGED timer_active
    /\ playerCall' = [op |-> "stop_loop"]
    /\ UNCHANGED <<current_file, duration>>
    /\ PlayerFrame

\* _tick, the timer's timeout: at the end of the stream it stops the player
Tick ==
    /\ timer_active
    /\ IF state = PLAYING /\ music # "playing"
       THEN StopBody
       ELSE UNCHANGED <<state, loop_sound, timer_active, music>>
    /\ playerCall' = [op |-> "_tick"]
    /\ UNCHANGED <<current_file, duration>>
    /\ PlayerFrame

\* the stream reaches the end of the file
MusicEnds ==
    /\ music = "playing"
    /\ music' = "stopped"
    /\ playerCall' = [op |-> "end of stream"]
    /\ UNCHANGED <<state, current_file, duration, loop_sound, timer_active>>
    /\ PlayerFrame

PlayerNext ==
    \/ \E f \in PlayerFiles, ok \in BOOLEAN : Load(f, ok)
    \/ \E d \in PlayerDurations : SetDuration(d)
    \/ \E ok \in BOOLEAN : Play(ok)
    \/ \E ok \in BOOLEAN : Pause(ok)
    \/ \E ok \in BOOLEAN : Resume(ok)
    \/ Stop
    \/ \E ok \in BOOLEAN : Seek(ok)
    \/ \E ok \in BOOLEAN : StartLoop(ok)
    \/ \E ok \in BOOLEAN : StopLoop(ok)
    \/ Tick
    \/ MusicEnds

SpecPlayer == PlayerInit /\ [][PlayerNext]_vars

\* the transitions of the module docstring
DocumentedTransitions ==
    {<<STOPPED, PLAYING>>, <<PLAYING, PAUSED>>, <<PAUSED, PLAYING>>,
     <<PLAYING, STOPPED>>, <<PAUSED, STOPPED>>,
     <<PLAYING, LOOP_PLAYING>>, <<LOOP_PLAYING, PLAYING>>}

\* C23: under any sequence of load, play, pause, resume, stop, seek,
\* start_loop, stop_loop and timer ticks the player's state changes only along
\* the documented transitions; in particular LOOP_PLAYING is entered only from
\* PLAYING and PAUSED is entered only from PLAYING.
C23_OnlyDocumentedTransitions ==
    [][state' # state => <<state, state'>> \in DocumentedTransitions]_vars

\* C24: in every reachable state a loop Sound is held if and only if the
\* state is LOOP_PLAYING, and the position timer is running only while the
\* state is PLAYING or LOOP_PLAYING.
C24_LoopSoundAndTimerFollowState ==
    /\ loop_sound <=> state = LOOP_PLAYING
    /\ timer_active => state \in {PLAYING, LOOP_PLAYING}

\* ------------------------------------------------------------------------
\* One cache file used by several threads at once: a pool worker of
\* BatchAnalyzer calls save_cached while the UI thread and other threads call
\* load_cached and is_cached for the same, unchanged audio file
\* (analyzer/batch_analyzer.py)

MaxSharedSaves == 2

\* the threads that read the cache: the UI thread (table refresh, folder load)
\* and a similarity search
LoaderThreads == {"ui", "search"}

NoText == [absent |-> TRUE]
NothingSaved == [never |-> TRUE]

IdleSaver == [pc |-> "idle"]
IdleLoader == [pc |-> "idle"]

SharedCacheFrame ==
    UNCHANGED <<batchVars, analysisVars, fnVars, cacheVars, loopVars,
                playerVars, threadVars, queueVars, syncVars>>

SharedCacheInit ==
    /\ cacheFileLinked = FALSE
    /\ cacheFileText = NoText
    /\ saver = IdleSaver
    /\ loader = [t \in LoaderThreads |-> IdleLoader]
    /\ savedValue = NothingSaved
    /\ nSharedSaves = 0
    /\ BatchParked
    /\ AnalysisParked
    /\ FnParked
    /\ CacheParked
    /\ LoopParked
    /\ PlayerParked
    /\ ThreadParked
    /\ QueueParked
    /\ SyncParked

\* save_cached, first step: open(cache_file, 'w') creates the file or empties
\* the existing one
SaveOpen(r) ==
    /\ saver.pc = "idle"
    /\ nSharedSaves < MaxSharedSaves
    /\ cacheFileLinked' = TRUE
    /\ cacheFileText' = TornText
    /\ saver' = [pc |-> "open", value |-> r, attached |-> TRUE]
    /\ nSharedSaves' = nSharedSaves + 1
    /\ UNCHANGED <<loader, savedValue>>
    /\ SharedCacheFrame

\* save_cached, second step: json.dump has written the text, the with block
\* closes the file, save_cached returns.  After an unlink by another thread
\* the text goes to an inode no directory entry points to.
SaveClose ==
    /\ saver.pc = "open"
    /\ IF saver.attached
       THEN cacheFileText' = JsonDump(saver.value)
       ELSE UNCHANGED cacheFileText
    /\ saver' = IdleSaver
    /\ savedValue' = saver.value
    /\ UNCHANGED <<cacheFileLinked, loader, nSharedSaves>>
    /\ SharedCacheFrame

\* whether a call begins after a save_cached call has returned and while no
\* other one is running
AfterSave == savedValue # NothingSaved /\ saver.pc = "idle"

\* load_cached, first step: cache_file.exists()
LoadExists(t) ==
    /\ loader[t].pc \in {"idle", "returned"}
    /\ loader' = [loader EXCEPT ![t] =
           IF cacheFileLinked
           THEN [pc |-> "exists", op |-> "load", after |-> AfterSave]
           ELSE [pc |-> "returned", op |-> "load", after |-> AfterSave,
                 torn |-> FALSE, ret |-> PyNone]]
    /\ UNCHANGED <<cacheFileLinked, cacheFileText, saver, savedValue, nSharedSaves>>
    /\ SharedCacheFrame

\* load_cached, second step: open(cache_file) and json.load(f)
LoadRead(t) ==
    /\ loader[t].pc = "exists"
    /\ LET loaded == IF cacheFileLinked THEN JsonLoad(cacheFileText)
                     ELSE [raised |-> "FileNotFoundError"]
       IN  loader' = [loader EXCEPT ![t] =
               IF "raised" \in DOMAIN loaded
               THEN [pc |-> "except", op |-> "load", after |-> loader[t].after,
                     torn |-> cacheFileLinked]
               ELSE [pc |-> "returned", op |-> "load", after |-> loader[t].after,
                     torn |-> FALSE, ret |-> loaded]]
    /\ UNCHANGED <<cacheFileLinked, cacheFileText, saver, savedValue, nSharedSaves>>
    /\ SharedCacheFrame

\* load_cached, the except branch: cache_file.unlink(missing_ok=True), then
\* return None
LoadUnlink(t) ==
    /\ loader[t].pc = "except"
    /\ cacheFileLinked' = FALSE
    /\ cacheFileText' = NoText
    /\ saver' = IF saver.pc = "open"
                THEN [saver EXCEPT !.attached = FALSE]
                ELSE saver
    /\ loader' = [loader EXCEPT ![t] =
           [pc |-> "returned", op |-> "load", after |-> loader[t].after,
            torn |-> loader[t].torn, ret |-> PyNone]]
    /\ UNCHANGED <<savedValue, nSharedSaves>>
    /\ SharedCacheFrame

\* the same branch where a file that another thread has open cannot be
\* removed: unlink raises PermissionError inside the handler and the error
\* leaves load_cached
LoadUnlinkRefused(t) ==
    /\ loader[t].pc = "except"
    /\ cacheFileLinked
    /\ saver.pc = "open"
    /\ saver.attached
    /\ loader' = [loader EXCEPT ![t] =
           [pc |-> "returned", op |-> "load", after |-> loader[t].after,
            torn |-> loader[t].torn, ret |-> [raised |-> "PermissionError"]]]
    /\ UNCHANGED <<cacheFileLinked, cacheFileText, saver, savedValue, nSharedSaves>>
    /\ SharedCacheFrame

\* is_cached
IsCached(t) ==
    /\ loader[t].pc \in {"idle", "returned"}
    /\ loader' = [loader EXCEPT ![t] =
           [pc |-> "returned", op |-> "is_cached", after |-> AfterSave,
            torn |-> FALSE, ret |-> [bool |-> cacheFileLinked]]]
    /\ UNCHANGED <<cacheFileLinked, cacheFileText, saver, savedValue, nSharedSaves>>
    /\ SharedCacheFrame

SharedCacheNext ==
    \/ \E r \in CachedResults : SaveOpen(r)
    \/ SaveClose
    \/ \E t \in LoaderThreads : LoadExists(t)
    \/ \E t \in LoaderThreads : LoadRead(t)
    \/ \E t \in LoaderThreads : LoadUnlink(t)
    \/ \E t \in LoaderThreads : LoadUnlinkRefused(t)
    \/ \E t \in LoaderThreads : IsCached(t)

SpecSharedCache == SharedCacheInit /\ [][SharedCacheNext]_vars

\* C25: a cache entry is never lost or observed half-written: no load_cached
\* call parses an incomplete text, and a load_cached or is_cached call made
\* once save_cached(p, r) has returned returns r, respectively True, under
\* every interleaving of the worker's save_cached with the calls of the other
\* threads.
C25_EntryNeverLostNorTorn ==
    \A t \in LoaderThreads :
        /\ loader[t].pc \in {"except", "returned"} => ~loader[t].torn
        /\ (loader[t].pc = "returned" /\ loader[t].after /\ saver.pc = "idle") =>
               IF loader[t].op = "load"
               THEN loader[t].ret = savedValue
               ELSE loader[t].ret = [bool |-> TRUE]

\* ------------------------------------------------------------------------
\* Single-track analysis started from the track table (ui/main_window.py):
\* each selection starts an AnalysisThread; its finished / error signal is
\* emitted in that thread and reaches the window's slot as a call queued on
\* the UI thread's event loop.

MaxAnalyses == 3

SelectableFiles == {"a.mp3", "b.mp3"}

\* what analyze_track returns for a file, as far as the window uses it
ResultFor(f) ==
    [loaded |-> TRUE, file_path |-> f,
     bpm |-> IF f = "a.mp3" THEN <<1280>> ELSE <<1034>>,
     duration |-> IF f = "a.mp3" THEN 240 ELSE 200]

ThreadFrame ==
    UNCHANGED <<batchVars, analysisVars, fnVars, cacheVars,
                playerVars, sharedCacheVars, queueVars, syncVars>>

\* MainWindow.__init__: no thread, no track
ThreadInit ==
    /\ analysis_thread = 0
    /\ threads = <<>>
    /\ eventQueue = <<>>
    /\ applied = 0
    /\ threadCall = [op |-> "init"]
    /\ current_track = NoTrack
    /\ position = Frac(0, 1)
    /\ loop_a = NoPoint
    /\ loop_b = NoPoint
    /\ loop_active = FALSE
    /\ loopCall = [op |-> "none"]
    /\ BatchParked
    /\ AnalysisParked
    /\ FnParked
    /\ CacheParked
    /\ PlayerParked
    /\ SharedCacheParked
    /\ QueueParked
    /\ SyncParked

\* analysis_thread.finished.disconnect() and .error.disconnect() on the
\* previous thread: its connections are removed and the slot calls it has
\* already queued are disabled
Disconnect_KeepConnected(ths, prev) == ths
Disconnect(ths, prev) ==
    IF prev = 0 THEN ths ELSE [ths EXCEPT ![prev].connected = FALSE]

\* _start_analysis(file_path)
StartAnalysis(f) ==
    /\ Len(threads) < MaxAnalyses
    /\ threads' = Append(Disconnect(threads, analysis_thread),
                         [file_path |-> f, pc |-> "running", connected |-> TRUE])
    /\ analysis_thread' = Len(threads) + 1
    /\ threadCall' = [op |-> "start", thread |-> Len(threads) + 1]
    /\ UNCHANGED <<eventQueue, applied, loopVars>>
    /\ ThreadFrame

\* AnalysisThread.run: analyze_track returns and finished is emitted, or it
\* raises and error is emitted; a connected signal queues a call of its slot
ThreadRun(i, ok) ==
    /\ i \in 1..Len(threads)
    /\ threads[i].pc = "running"
    /\ threads' = [threads EXCEPT ![i].pc = "finished"]
    /\ eventQueue' =
           IF threads[i].connected
           THEN Append(eventQueue,
                       [thread |-> i,
                        signal |-> IF ok THEN "finished" ELSE "error"])
           ELSE eventQueue
    /\ threadCall' = [op |-> "run", thread |-> i]
    /\ UNCHANGED <<analysis_thread, applied, loopVars>>
    /\ ThreadFrame

\* the event loop takes the next queued call: _on_analysis_done(results)
\* sets current_track and displays the track (the loop is reset),
\* _on_analysis_error shows a message; a call whose connection was
\* disconnected in the meantime is not made
DeliverQueuedCall ==
    /\ eventQueue # <<>>
    /\ LET e == Head(eventQueue)
           live == threads[e.thread].connected
       IN  /\ IF live /\ e.signal = "finished"
              THEN /\ current_track' = ResultFor(threads[e.thread].file_path)
                   /\ loop_a' = NoPoint
                   /\ loop_b' = NoPoint
                   /\ loop_active' = FALSE
                   /\ position' = Frac(0, 1)
                   /\ loopCall' = [op |-> "display"]
                   /\ applied' = e.thread
              ELSE UNCHANGED <<applied, loopVars>>
           /\ threadCall' = [op |-> "deliver", thread |-> e.thread,
                             signal |-> e.signal, dropped |-> ~live]
    /\ eventQueue' = Tail(eventQueue)
    /\ UNCHANGED <<analysis_thread, threads>>
    /\ ThreadFrame

ThreadNext ==
    \/ \E f \in SelectableFiles : StartAnalysis(f)
    \/ \E i \in 1..MaxAnalyses, ok \in BOOLEAN : ThreadRun(i, ok)
    \/ DeliverQueuedCall

SpecThread == ThreadInit /\ [][ThreadNext]_vars

\* C26: when analysis of track B is started while an earlier analysis of
\* track A is still running or has just finished, A's result is never applied
\* after B's analysis was started: current_track only ever changes to the
\* result of the most recently started analysis.
C26_OnlyLatestAnalysisIsApplied ==
    [][(current_track' # current_track \/ applied' # applied) =>
          /\ applied' = analysis_thread
          /\ current_track' = ResultFor(threads[analysis_thread].file_path)]_vars

\* the finished signal of the first analysis was queued, a second analysis
\* was started, and the queued call was then not made
C26_Witness ==
    /\ threadCall = [op |-> "deliver", thread |-> 1, signal |-> "finished",
                     dropped |-> TRUE]
    /\ analysis_thread = 2
    /\ threads[1].file_path = "a.mp3"
    /\ threads[2].file_path = "b.mp3"
    /\ current_track = NoTrack

\* ------------------------------------------------------------------------
\* The download queue (ui/downloads_tab.py, downloader/yt_handler.py)

MaxQueued == 2

STATUS_PENDING == "Pending"
STATUS_DOWNLOADING == "Downloading"
STATUS_DONE == "Done"
STATUS_ERROR == "Error"

QueueUrls == {"u1", "u2"}
SourceLabels == {"Manual", "Subscription"}

\* the file a download of the url produces
OutputFile(url) == IF url = "u1" THEN "u1.mp3" ELSE "u2.mp3"

QueueFrame ==
    UNCHANGED <<batchVars, analysisVars, fnVars, cacheVars, loopVars,
                playerVars, sharedCacheVars, threadVars, syncVars>>

\* DownloadsTab.__init__, with a download folder configured
QueueInit ==
    /\ queue = <<>>
    /\ rows = <<>>
    /\ dl_worker = 0
    /\ active_url = Null
    /\ workers = <<>>
    /\ dlEvents = <<>>
    /\ nQueued = 0
    /\ tabCall = [op |-> "none"]
    /\ BatchParked
    /\ AnalysisParked
    /\ FnParked
    /\ CacheParked
    /\ LoopParked
    /\ PlayerParked
    /\ SharedCacheParked
    /\ ThreadParked
    /\ SyncParked

\* the tab's state as one value, for the handlers that call one another
TabState ==
    [queue |-> queue, rows |-> rows, dl_worker |-> dl_worker,
     active_url |-> active_url, workers |-> workers]

SetTabState(st) ==
    /\ queue' = st.queue
    /\ rows' = st.rows
    /\ dl_worker' = st.dl_worker
    /\ active_url' = st.active_url
    /\ workers' = st.workers

\* first index i (1-based) of a sequence with P(s[i]), 0 if none
FirstIndex(s, P(_)) ==
    IF \E i \in 1..Len(s) : P(s[i])
    THEN CHOOSE i \in 1..Len(s) : P(s[i]) /\ \A j \in 1..(i - 1) : ~P(s[j])
    ELSE 0

\* _row_for_active_url: the first row whose tooltip is the url (1-based, 0
\* for -1)
RowForActiveUrl(rs, url) ==
    LET P(r) == r.url = url IN FirstIndex(rs, P)

\* _row_for_queue_idx: the first row that stores the queue index
RowForQueueIdx(rs, idx) ==
    LET P(r) == r.idx = idx IN FirstIndex(rs, P)

\* _queue_idx_for_row
QueueIdxForRow(rs, row) == rs[row].idx

\* QThread.isRunning()
WorkerIsRunning(w) == w.pc # "exited"

\* _start_download_item(queue_idx, output_dir); queue_idx is 0-based
StartDownloadItem(st, queue_idx) ==
    LET item == st.queue[queue_idx + 1]
        row == RowForQueueIdx(st.rows, queue_idx)
    IN  [queue |-> [st.queue EXCEPT ![queue_idx + 1].status = STATUS_DOWNLOADING],
         rows |-> IF row > 0
                  THEN [st.rows EXCEPT ![row].status = STATUS_DOWNLOADING]
                  ELSE st.rows,
         dl_worker |-> Len(st.workers) + 1,
         active_url |-> item.url,
         workers |-> Append(st.workers, [url |-> item.url, pc |-> "running"])]

\* _start_next_download
StartNextDownload(st) ==
    IF st.dl_worker # 0 /\ WorkerIsRunning(st.workers[st.dl_worker])
    THEN st
    ELSE LET P(item) == item.status = STATUS_PENDING
             i == FirstIndex(st.queue, P)
         IN  IF i = 0 THEN st ELSE StartDownloadItem(st, i - 1)

\* _add_to_queue(url, title, source_label), called by the Add button and by
\* _on_sync_new_track
AddToQueue(url, source_label) ==
    /\ nQueued < MaxQueued
    /\ queue' = Append(queue, [url |-> url, source_label |-> source_label,
                               status |-> STATUS_PENDING, file_path |-> Null])
    /\ rows' = Append(rows, [url |-> url, idx |-> Len(queue),
                             status |-> STATUS_PENDING, button |-> Null])
    /\ nQueued' = nQueued + 1
    /\ UNCHANGED <<dl_worker, active_url, workers, dlEvents>>
    /\ tabCall' = [op |-> "add"]
    /\ QueueFrame

\* _on_download_all
OnDownloadAll ==
    /\ SetTabState(StartNextDownload(TabState))
    /\ UNCHANGED <<dlEvents, nQueued>>
    /\ tabCall' = [op |-> "download_all"]
    /\ QueueFrame

\* _on_sync_all_done
OnSyncAllDone ==
    /\ IF \E i \in 1..Len(queue) : queue[i].source_label # "Manual"
       THEN SetTabState(StartNextDownload(TabState))
       ELSE SetTabState(TabState)
    /\ UNCHANGED <<dlEvents, nQueued>>
    /\ tabCall' = [op |-> "sync_all_done"]
    /\ QueueFrame

\* DownloadWorker.run: the download ends and done or error is emitted
WorkerRun(w, ok) ==
    /\ w \in 1..Len(workers)
    /\ workers[w].pc = "running"
    /\ workers' = [workers EXCEPT ![w].pc = "emitted"]
    /\ dlEvents' = Append(dlEvents,
                          [worker |-> w, url |-> workers[w].url,
                           signal |-> IF ok THEN "done" ELSE "error"])
    /\ UNCHANGED <<queue, rows, dl_worker, active_url, nQueued>>
    /\ tabCall' = [op |-> "run"]
    /\ QueueFrame

\* run returns, the thread is no longer running
WorkerExit(w) ==
    /\ w \in 1..Len(workers)
    /\ workers[w].pc = "emitted"
    /\ workers' = [workers EXCEPT ![w].pc = "exited"]
    /\ UNCHANGED <<queue, rows, dl_worker, active_url, dlEvents, nQueued>>
    /\ tabCall' = [op |-> "exit"]
    /\ QueueFrame

\* the part _on_dl_done and _on_dl_error share: the first item with the url
\* that is downloading gets the status, the row found by the url shows it,
\* the worker is forgotten and the next download started
Finished(st, url, status, file_path) ==
    LET row == RowForActiveUrl(st.rows, url)
        P(item) == item.url = url /\ item.status = STATUS_DOWNLOADING
        i == FirstIndex(st.queue, P)
    IN  StartNextDownload(
            [queue |-> IF i = 0 THEN st.queue
                       ELSE [st.queue EXCEPT
                               ![i].status = status,
                               ![i].file_path =
                                   IF status = STATUS_DONE THEN file_path
                                   ELSE st.queue[i].file_path],
             rows |-> IF row = 0 THEN st.rows
                      ELSE [st.rows EXCEPT
                              ![row].status = status,
                              ![row].button =
                                  IF status = STATUS_DONE THEN file_path
                                  ELSE st.rows[row].button],
             dl_worker |-> 0,
             active_url |-> Null,
             workers |-> st.workers])

\* the event loop delivers the next notification: _on_dl_done(url, file_path)
\* or _on_dl_error(url, message)
DeliverDlEvent ==
    /\ dlEvents # <<>>
    /\ LET e == Head(dlEvents)
       IN  SetTabState(Finished(TabState, e.url,
                                IF e.signal = "done" THEN STATUS_DONE
                                ELSE STATUS_ERROR,
                                OutputFile(e.url)))
    /\ dlEvents' = Tail(dlEvents)
    /\ UNCHANGED <<nQueued>>
    /\ tabCall' = [op |-> "deliver"]
    /\ QueueFrame

\* _on_clear_done: the rows that show Done are removed, the queue keeps the
\* items that are not done
OnClearDone ==
    /\ LET RowKept(r) == r.status # STATUS_DONE
           ItemKept(item) == item.status # STATUS_DONE
       IN  /\ rows' = SelectSeq(rows, RowKept)
           /\ queue' = SelectSeq(queue, ItemKept)
    /\ UNCHANGED <<dl_worker, active_url, workers, dlEvents, nQueued>>
    /\ tabCall' = [op |-> "clear_done"]
    /\ QueueFrame

\* _on_import_selected over the rows from `row` on: the paths emitted, and
\* whether indexing the queue raised IndexError
RECURSIVE ImportFrom(_, _, _)
ImportFrom(row, selected_rows, emitted) ==
    IF row > Len(rows) THEN [emitted |-> emitted, raised |-> FALSE]
    ELSE IF rows[row].status = STATUS_DONE
            /\ (selected_rows = {} \/ row \in selected_rows)
         THEN LET q_idx == QueueIdxForRow(rows, row)
              IN  IF q_idx >= Len(queue)
                  THEN [emitted |-> emitted, raised |-> TRUE]
                  ELSE IF queue[q_idx + 1].file_path # Null
                       THEN ImportFrom(row + 1, selected_rows,
                                       Append(emitted, queue[q_idx + 1].file_path))
                       ELSE ImportFrom(row + 1, selected_rows, emitted)
         ELSE ImportFrom(row + 1, selected_rows, emitted)

OnImportSelected(selected_rows) ==
    /\ tabCall' = [op |-> "import", selected |-> selected_rows,
                   result |-> ImportFrom(1, selected_rows, <<>>)]
    /\ UNCHANGED <<queue, rows, dl_worker, active_url, workers, dlEvents, nQueued>>
    /\ QueueFrame

QueueNext ==
    \/ \E url \in QueueUrls, l \in SourceLabels : AddToQueue(url, l)
    \/ OnDownloadAll
    \/ OnSyncAllDone
    \/ \E w \in 1..MaxQueued, ok \in BOOLEAN : WorkerRun(w, ok)
    \/ \E w \in 1..MaxQueued : WorkerExit(w)
    \/ DeliverDlEvent
    \/ OnClearDone
    \/ \E sel \in SUBSET (1..MaxQueued) :
           sel \subseteq 1..Len(rows) /\ OnImportSelected(sel)

SpecQueue == QueueInit /\ [][QueueNext]_vars

\* a worker whose download is running or whose done / error notification has
\* not been delivered
InProgress(w) ==
    \/ workers[w].pc = "running"
    \/ \E k \in 1..Len(dlEvents) : dlEvents[k].worker = w

\* C27: at most one download is in progress at any time: no worker is started
\* while an earlier one is running or has an undelivered done / error
\* notification, so at most one queue item has status Downloading.
C27_AtMostOneDownload ==
    /\ Cardinality({w \in 1..Len(workers) : InProgress(w)}) <= 1
    /\ Cardinality({i \in 1..Len(queue) :
                       queue[i].status = STATUS_DOWNLOADING}) <= 1

\* every row's stored queue index refers to the queue item the row displays
RowsReferToTheirItems ==
    \A r \in 1..Len(rows) :
        /\ QueueIdxForRow(rows, r) < Len(queue)
        /\ queue[QueueIdxForRow(rows, r) + 1].url = rows[r].url

\* C29: after any sequence of add-to-queue, download completion and Clear
\* Done operations, every row's stored queue index refers to the queue item
\* the row displays, so Import Selected emits import_requested only for the
\* file paths of the Done rows that are selected (or of all Done rows when
\* nothing is selected) and never indexes outside the queue.
C29_RowsIndexTheirQueueItems ==
    /\ RowsReferToTheirItems
    /\ tabCall.op = "import" => ~tabCall.result.raised

\* ------------------------------------------------------------------------
\* Playlist synchronisation (downloader/playlist_sync.py, ui/downloads_tab.py)

MaxSyncRuns == 2

\* the subscriptions, in the order _build_sources lists them: a YouTube
\* playlist, whose tracks carry a url, and an Apple Music playlist, whose
\* tracks are searched on YouTube
SyncSources == <<"yt", "am">>
SourceIds == {"yt", "am"}
TrackIds == {"t1", "t2"}

\* what source.get_tracks() can return: a playlist may list a track twice
FetchedLists(source_id) ==
    IF source_id = "yt"
    THEN {<<>>, <<"t1">>, <<"t1", "t2">>, <<"t1", "t1">>}
    ELSE {<<>>, <<"t2">>}

SyncFrame ==
    UNCHANGED <<batchVars, analysisVars, fnVars, cacheVars, loopVars,
                playerVars, sharedCacheVars, threadVars, queueVars>>

\* no sync state saved yet, no worker
SyncInit ==
    /\ syncStateFile = [absent |-> TRUE]
    /\ sync_worker = 0
    /\ syncWorkers = <<>>
    /\ announced = [k \in SourceIds \X TrackIds |-> 0]
    /\ startupDone = FALSE
    /\ syncCall = [op |-> "none"]
    /\ BatchParked
    /\ AnalysisParked
    /\ FnParked
    /\ CacheParked
    /\ LoopParked
    /\ PlayerParked
    /\ SharedCacheParked
    /\ ThreadParked
    /\ QueueParked

\* load_sync_state: the saved dict, {} when there is no file
LoadSyncState ==
    IF "absent" \in DOMAIN syncStateFile THEN <<>> ELSE syncStateFile.saved

\* dict.get(source_id, [])
KnownList(known_state, source_id) ==
    IF source_id \in DOMAIN known_state THEN known_state[source_id] ELSE <<>>

\* _known_ids_for(source_id): the ids the worker was constructed with
KnownIdsFor(w, source_id) ==
    {KnownList(w.known, source_id)[i] :
        i \in 1..Len(KnownList(w.known, source_id))}

\* PlaylistSyncWorker(sources, load_sync_state()); _new_state is a copy
NewSyncWorker ==
    [known |-> LoadSyncState, new_state |-> LoadSyncState, next |-> 1,
     running |-> TRUE]

\* _on_sync_now: nothing while the remembered worker is running
OnSyncNow ==
    /\ Len(syncWorkers) < MaxSyncRuns
    /\ ~(sync_worker # 0 /\ syncWorkers[sync_worker].running)
    /\ syncWorkers' = Append(syncWorkers, NewSyncWorker)
    /\ sync_worker' = Len(syncWorkers) + 1
    /\ syncCall' = [op |-> "sync_now"]
    /\ UNCHANGED <<syncStateFile, announced, startupDone>>
    /\ SyncFrame

\* run_startup_sync, called once, two seconds after the window is shown
RunStartupSync ==
    /\ ~startupDone
    /\ Len(syncWorkers) < MaxSyncRuns
    /\ syncWorkers' = Append(syncWorkers, NewSyncWorker)
    /\ sync_worker' = Len(syncWorkers) + 1
    /\ startupDone' = TRUE
    /\ syncCall' = [op |-> "startup_sync"]
    /\ UNCHANGED <<syncStateFile, announced>>
    /\ SyncFrame

\* the loop over the fetched tracks: the ids it treats as new, in order;
\* known_ids is the set computed before the loop
RECURSIVE NewTracks(_, _)
NewTracks(tracks, known_ids) ==
    IF tracks = <<>> THEN <<>>
    ELSE IF Head(tracks) \in known_ids
         THEN NewTracks(Tail(tracks), known_ids)
         ELSE <<Head(tracks)>> \o NewTracks(Tail(tracks), known_ids)

\* number of times id occurs in a sequence
Occurrences(s, id) == Cardinality({i \in 1..Len(s) : s[i] = id})

\* PlaylistSyncWorker.run, one round of the outer loop: the source's tracks
\* are fetched, every new id is appended to _new_state[source_id] and
\* announced with new_track or, when the YouTube search finds nothing, with
\* track_not_found
SyncSource(w, tracks) ==
    /\ w \in 1..Len(syncWorkers)
    /\ syncWorkers[w].running
    /\ syncWorkers[w].next <= Len(SyncSources)
    /\ LET source_id == SyncSources[syncWorkers[w].next]
           new == NewTracks(tracks, KnownIdsFor(syncWorkers[w], source_id))
           st == syncWorkers[w].new_state
       IN  /\ tracks \in FetchedLists(source_id)
           /\ syncWorkers' = [syncWorkers EXCEPT
                  ![w].next = @ + 1,
                  ![w].new_state =
                      IF new = <<>> THEN st
                      ELSE [s \in DOMAIN st \cup {source_id} |->
                               IF s = source_id
                               THEN KnownList(st, source_id) \o new
                               ELSE st[s]]]
           /\ announced' = [k \in SourceIds \X TrackIds |->
                  IF k[1] = source_id
                  THEN announced[k] + Occurrences(new, k[2])
                  ELSE announced[k]]
           /\ syncCall' = [op |-> "source", worker |-> w, source |-> source_id,
                           new |-> new]
    /\ UNCHANGED <<syncStateFile, sync_worker, startupDone>>
    /\ SyncFrame

\* the end of run: save_sync_state(_new_state), all_done, the thread ends
SyncFinish(w) ==
    /\ w \in 1..Len(syncWorkers)
    /\ syncWorkers[w].running
    /\ syncWorkers[w].next > Len(SyncSources)
    /\ syncStateFile' = [saved |-> syncWorkers[w].new_state]
    /\ syncWorkers' = [syncWorkers EXCEPT ![w].running = FALSE]
    /\ syncCall' = [op |-> "finish", worker |-> w]
    /\ UNCHANGED <<sync_worker, announced, startupDone>>
    /\ SyncFrame

SyncNext ==
    \/ OnSyncNow
    \/ RunStartupSync
    \/ \E w \in 1..MaxSyncRuns, s \in SourceIds :
           \E tracks \in FetchedLists(s) : SyncSource(w, tracks)
    \/ \E w \in 1..MaxSyncRuns : SyncFinish(w)

SpecSync == SyncInit /\ [][SyncNext]_vars

\* C28: a track of a subscribed playlist is announced as new at most once:
\* new_track or track_not_found is emitted at most once per (source, track
\* id), within one run even if the fetched list repeats an id, and over the
\* runs, including a startup sync and a manual sync that overlap.
C28_AnnouncedAtMostOnce ==
    \A k \in SourceIds \X TrackIds : announced[k] <= 1

\* ------------------------------------------------------------------------
\* C30: the Open Key lookup uses a permutation of 1..12 with suffix m for
\* major and d for minor, maps the 24 (pitch class, mode) pairs to 24
\* distinct codes, and agrees with the Camelot lookup on harmonic
\* compatibility: p major and its relative minor ((p + 9) mod 12 minor) get
\* the same Open Key number, as they get the same Camelot number.
C30_OpenKeyAgreesWithCamelot ==
    fnPc = "applied" =>
        /\ {OpenKeyNumbers[i] : i \in 1..12} = 1..12
        /\ \A p \in 0..11 :
            /\ ToOpenKey(p, TRUE)[2] = "m"
            /\ ToOpenKey(p, FALSE)[2] = "d"
        /\ \A p, q \in 0..11 : \A m, n \in BOOLEAN :
             ToOpenKey(p, m) = ToOpenKey(q, n) => (p = q /\ m = n)
        /\ \A p \in 0..11 :
            /\ WheelNumber(ToCamelot(p, TRUE), WheelB)
                 = WheelNumber(ToCamelot((p + 9) % 12, FALSE), WheelA)
            /\ ToOpenKey(p, TRUE)[1] = ToOpenKey((p + 9) % 12, FALSE)[1]

====
